---------------------------- MODULE Spec2Model ----------------------------
(***************************************************************************)
(* State-machine model of the session engine of python-ember-mug           *)
(* (ember_mug/mug.py, class EmberMug): the connection lifecycle            *)
(* (_ensure_connection, disconnect), the attribute primitives (_read,      *)
(* _write), the getters and setters built on them, the refreshes           *)
(* (_update_multiple, update_queued_attributes), the push notifications    *)
(* (_notify_callback), the callback registry (register_callback,           *)
(* _fire_callbacks) and MugData.update_info (ember_mug/data.py).           *)
(*                                                                         *)
(* The engine runs on asyncio: tasks are cooperative and yield only at an  *)
(* await that really suspends (a transport call, or a lock that is held).  *)
(* One action of the model is therefore the code a task runs from one      *)
(* suspension point to the next.                                           *)
(***************************************************************************)
EXTENDS Integers, Sequences, FiniteSets, TLC

(* ------------------------------ bounds --------------------------------- *)

\* Number of concurrent asyncio tasks calling into one EmberMug.
NumTasks == 2

\* Number of public operations other than update_queued_attributes the tasks
\* start in one behaviour.
MaxOps == 2

\* Number of transports establish_connection may hand out in one behaviour.
MaxClients == 2

\* Number of update_queued_attributes calls started in one behaviour.
MaxDrains == 2

\* Number of notifications the transport delivers in one behaviour.
MaxEvents == 2

\* The latest value time() reaches; the first is 1.
MaxTime == 7

\* Number of unregister handles register_callback creates in one behaviour.
MaxHandles == 2

\* Number of keyword arguments of one update_info call.
MaxKwargs == 2

(* ----------------------------- constants ------------------------------- *)

Tasks == 1..NumTasks

\* self._client = None
NoClient == 0

\* No task owns the lock (asyncio.Lock()._locked is False).
NoTask == 0

\* consts.INITIAL_ATTRS, in the (fixed) iteration order of the set.
INITIAL_ATTRS == <<"meta", "udsk", "dsk", "date_time_zone", "firmware">>

\* The attribute whose setter the model exercises (set_target_temp; the other
\* setters have the same shape: `await self._write(...)`, then the assignment).
SetAttrs == {"target_temp"}

\* Attributes read by a stand-alone getter call.
GetAttrs == {"target_temp", "udsk"}

\* The attributes _notify_callback can put in the pending queue.
QueuedAttrs == {"battery", "target_temp", "current_temp", "liquid_level",
                "liquid_state", "battery_voltage"}

\* consts.INITIAL_ATTRS as the set it is.
InitialAttrs == {INITIAL_ATTRS[i] : i \in 1..Len(INITIAL_ATTRS)}

\* consts.UPDATE_ATTRS
UPDATE_ATTRS == {"name", "led_colour", "current_temp", "target_temp",
                 "temperature_unit", "battery", "liquid_level", "liquid_state"}

\* consts.EXTRA_ATTRS
EXTRA_ATTRS == {"battery_voltage", "date_time_zone", "udsk", "dsk"}

\* The MugData slots of the model.
Attrs == InitialAttrs \cup SetAttrs \cup QueuedAttrs \cup UPDATE_ATTRS
             \cup EXTRA_ATTRS \cup {"volume_level"}

\* The keys of consts.ATTR_LABELS.
ATTR_LABELS == {"name", "meta", "battery", "firmware", "led_colour", "liquid_state",
                "liquid_level", "current_temp", "target_temp", "use_metric", "dsk",
                "udsk", "date_time_zone", "battery_voltage", "volume_level"}

\* consts.DeviceModel, and None for a ModelInfo without a model.
CUP_6_OZ == "CM21S"
MUG_1_10_OZ == "CM17"
MUG_1_14_OZ == "CM17P"
MUG_2_10_OZ == "CM19/CM21M"
MUG_2_14_OZ == "CM19P/CM21L"
TRAVEL_MUG_12_OZ == "TM19"
TUMBLER_16_OZ == "CM21XL"
UNKNOWN_DEVICE == "Unknown"
NoModel == "None"
NoColour == "None"

\* The addresses of the BLEDevice objects a session is given, the first of
\* them at construction; and EmberMug.model_name before its first use.
Devices == {"32:36:a5:be:88:cb", "BA:36:a5:be:88:cb"}
FirstDevice == "32:36:a5:be:88:cb"
NotCached == "not cached"
DeviceModels == {CUP_6_OZ, MUG_1_10_OZ, MUG_1_14_OZ, MUG_2_10_OZ, MUG_2_14_OZ,
                 TRAVEL_MUG_12_OZ, TUMBLER_16_OZ, UNKNOWN_DEVICE}
Models == DeviceModels \cup {NoModel}

\* ModelInfo.device_type: the travel mug, the tumbler and the cup have their
\* own type; everything else, an unknown or unset model included, is a mug.
DeviceType(m) ==
    IF m = TRAVEL_MUG_12_OZ THEN "travel_mug"
    ELSE IF m = TUMBLER_16_OZ THEN "tumbler"
    ELSE IF m = CUP_6_OZ THEN "cup"
    ELSE "mug"

\* A mutation of DeviceAttributes: the second test is an `if`, so that the
\* travel mug's attributes are also given to an unknown or unset model.
DeviceAttributesIfNotElif(m) ==
    LET all == EXTRA_ATTRS \cup InitialAttrs \cup UPDATE_ATTRS
        unknown == {NoModel, UNKNOWN_DEVICE}
        named == IF m \in unknown \/ DeviceType(m) \in {"cup", "tumbler"}
                 THEN all \ {"name"}
                 ELSE all
        led == IF m \in unknown \/ DeviceType(m) = "travel_mug"
               THEN (named \ {"led_colour"}) \cup {"volume_level"}
               ELSE named
    IN IF m # TRAVEL_MUG_12_OZ THEN led \ {"battery_voltage"} ELSE led

\* ModelInfo.device_attributes, as it is computed on first use.
DeviceAttributes(m) ==
    LET all == EXTRA_ATTRS \cup InitialAttrs \cup UPDATE_ATTRS
        unknown == {NoModel, UNKNOWN_DEVICE}
        named == IF m \in unknown \/ DeviceType(m) \in {"cup", "tumbler"}
                 THEN all \ {"name"}
                 ELSE IF m \in unknown \/ DeviceType(m) = "travel_mug"
                 THEN (all \ {"led_colour"}) \cup {"volume_level"}
                 ELSE all
    IN IF m # TRAVEL_MUG_12_OZ THEN named \ {"battery_voltage"} ELSE named

\* The attributes whose getter and setter are wrapped by @require_attribute.
RequireAttribute == {"led_colour", "volume_level", "name"}

\* A mutation of BestEffortAttrs: every getter swallows the error.
EveryAttrBestEffort ==
    {"meta", "udsk", "dsk", "date_time_zone", "firmware", "target_temp"}

\* A mutation of BestEffortAttrs: get_dsk lets the error through.
OnlyUdskBestEffort == {"udsk"}

\* The two attributes whose getter swallows a BleakError.
BestEffortAttrs == {"udsk", "dsk"}

\* Abstract attribute values.  DefaultValue stands for the field default of
\* meta, firmware, date_time_zone (None) and target_temp (0.0), which no getter
\* of the model yields; NoneValue and EmptyValue are what get_udsk and get_dsk
\* yield on a transport error (None is also the field default of battery);
\* DeviceValues are what the device may hold.
DefaultValue == "default"
NoneValue == "None"
EmptyValue == ""
DeviceValues == {"a", "b"}

\* BatteryInfo(percent, on_charging_base), for the two percentages of the model.
BatteryInfo(percent, base) ==
    IF percent = 0 THEN (IF base THEN "0%/on" ELSE "0%/off")
    ELSE (IF base THEN "50%/on" ELSE "50%/off")

\* BatteryInfo.percent
Percent(b) == IF b \in {"50%/on", "50%/off"} THEN 50 ELSE 0

\* consts.TemperatureUnit
CELSIUS == "C"
FAHRENHEIT == "F"

\* What the device holds after construction of the session.
DeviceDefault(a) ==
    IF a = "battery" THEN BatteryInfo(50, FALSE)
    ELSE IF a = "temperature_unit" THEN CELSIUS
    ELSE "a"

\* MugData after construction: dsk and udsk default to "", temperature_unit to
\* TemperatureUnit.CELSIUS.
FieldDefault(a) ==
    IF a \in {"dsk", "udsk"} THEN EmptyValue
    ELSE IF a = "battery" THEN NoneValue
    ELSE IF a = "temperature_unit" THEN CELSIUS
    ELSE DefaultValue

\* What stands in op.v for an argument the setter rejects.
OutOfRange == "out_of_range"

\* The arguments set_target_temp is called with in SessionSpec and Spec: a
\* temperature within the metric range, and one that fails the range check.
SetValues == {55, 30}

\* consts.MIN_MAX_TEMPS
MIN_MAX_TEMPS(unit) ==
    IF unit = CELSIUS THEN [min_temp |-> 49, max_temp |-> 63]
    ELSE [min_temp |-> 120, max_temp |-> 145]

\* Arguments of set_target_temp around the limits of both ranges, and 0.
TempArgs == {0, 48, 49, 63, 64, 119, 120, 145, 146}

\* Arguments of set_volume_level: the three levels and their neighbours.
VolumeArgs == {0, 1, 2, 3, 7}

\* Arguments of set_temperature_unit.
UnitArgs == {CELSIUS, FAHRENHEIT}

\* A name is a sequence of characters, each one a character of the class of
\* consts.MUG_NAME_REGEX ("p"), a line feed ("n"), or any other ("x").
NameOfLength(k) == [i \in 1..k |-> "p"]

\* The longest name MUG_NAME_REGEX accepts: {1,16}.
MaxNameLength == 16

\* Arguments of set_name: names of the lengths around the limits, alone or
\* followed by one more character.
NameArgs ==
    {NameOfLength(k) \o suffix : k \in {0, 1, MaxNameLength, MaxNameLength + 1},
                                 suffix \in {<<>>, <<"x">>, <<"n">>}}

\* A mutation of NameMatches: the length is not limited.
NameMatchesAnyLength(name) ==
    LET body == IF name # <<>> /\ name[Len(name)] = "n"
                THEN SubSeq(name, 1, Len(name) - 1) ELSE name
    IN /\ Len(body) >= 1
       /\ \A i \in 1..Len(body) : body[i] = "p"

\* MUG_NAME_REGEX.match(name) is not None: 1 to 16 characters of the class,
\* up to the end of the string, `$` matching before a final line feed as well.
NameMatches(name) ==
    LET body == IF name # <<>> /\ name[Len(name)] = "n"
                THEN SubSeq(name, 1, Len(name) - 1) ELSE name
    IN /\ Len(body) \in 1..MaxNameLength
       /\ \A i \in 1..Len(body) : body[i] = "p"

\* The callbacks a client may register.
Callbacks == {"cb1", "cb2"}

\* First bytes of the notifications the device may send: the PushEvent codes
\* 1..9 and one code outside the enumeration.
Codes == 1..10

\* The characteristics whose notifications reach _notify_callback: PUSH_EVENT,
\* and STATISTICS in debug mode.
Channels == {"push", "stats"}

\* The event codes delivered in QueuedSpec: BATTERY_CHANGED and
\* TARGET_TEMPERATURE_CHANGED.
QueuedCodes == {1, 4}

\* The event code delivered in RefreshSpec: TARGET_TEMPERATURE_CHANGED.
RefreshCodes == {4}

\* The callback registered in RefreshSpec and ChargerSpec.
RefreshCallbacks == {"cb1"}

\* PUSH_EVENT_BATTERY_IDS
PUSH_EVENT_BATTERY_IDS == {1, 2, 3}

\* Outcomes of client.pair().
PairResults == {"ok", "BleakError", "EOFError", "NotImplementedError", "other"}

(* ----------------------------- variables ------------------------------- *)

VARIABLES
    debug,              \* EmberMug.debug
    client,             \* EmberMug._client: NoClient or a transport id
    connected,          \* transports whose is_connected is True
    subscribed,         \* transports with an active PUSH_EVENT subscription
    startNotify,        \* per transport: number of start_notify(PUSH_EVENT) calls
    nextClient,         \* number of transports handed out so far
    connectLock,        \* EmberMug._connect_lock: [owner, waiters]
    expectedDisconnect, \* EmberMug._expected_disconnect
    opLock,             \* EmberMug._operation_lock: [owner, waiters]
    pc,                 \* per task: the await it is suspended at
    op,                 \* per task: the public operation it runs
    outcome,            \* per task: "none", "ok" or "raised"
    cl,                 \* per task: the transport its pending call was made on
    res,                \* per task: how client.pair() ended, kept until
                        \* _ensure_connection returns normally
    todo,               \* per task: attributes still to read in the comprehension
    vals,               \* per task: <<attribute, value>> pairs read so far; at "done"
                        \* the value the operation returned
    ensured,            \* per task: _ensure_connection calls returned in this operation
    estab,              \* per task: the transport this operation established
    via,                \* per task: how this operation's _ensure_connection returned
    data,               \* MugData: slot per attribute
    dev,                \* the device's characteristics
    fires,              \* number of _fire_callbacks dispatches
    invoked,            \* per callback: its invocations in the latest dispatch
    opsStarted,         \* number of operations started
    queue,              \* EmberMug._queued_updates
    latest,             \* EmberMug._latest_events: per event code, the time it was
                        \* last processed (0: no entry)
    now,                \* time()
    callbacks,          \* EmberMug._callbacks: callback -> unregister handle
    handles,            \* the unregister closures created so far: handle -> callback
    taken,              \* per task: the attributes its update_queued_attributes took
    late,               \* per task: the attributes queued since it took the queue
    events,             \* number of notifications delivered
    event,              \* the latest notification: characteristic and event code
    drains,             \* number of update_queued_attributes calls started
    api,                \* the latest register_callback / unregister call
    used,               \* the unregister handles invoked at least once
    kwargs,             \* the (attribute, value) pairs passed to update_info
    returned,           \* the list update_info returned
    applied,            \* number of update_info(**kwargs) calls made
    model,              \* MugData.model_info.model
    deviceAttributes,   \* the set ModelInfo.device_attributes returns (computed
                        \* from the model on first use, then cached)
    useMetric,          \* MugData.use_metric
    snapshot,           \* the latest MugData.formatted / as_dict call, and the
                        \* attributes it reported
    device,             \* EmberMug.device: the address of the BLEDevice
    modelColour,        \* MugData.model_info.colour
    modelName,          \* what cached_property keeps of EmberMug.model_name
    wire,               \* the two bytes of a temperature characteristic
    temp,               \* the float temp_from_bytes yields for them
    target,             \* the bytes set_target_temp builds from that float
    stage,              \* how far the codec got: "wire", "decoded", "encoded"
    call                \* a function applied on its own: its name, its argument
                        \* and, once applied, what it returned

connVars == <<client, connected, subscribed, startNotify, nextClient, connectLock,
              expectedDisconnect>>
tailVars == <<opLock, pc, outcome, cl, res, todo, vals, ensured, estab, via, data,
              fires, invoked>>
pureVars == <<kwargs, returned, applied>>
infoVars == <<model, deviceAttributes, useMetric, snapshot, device, modelColour, modelName>>
codecVars == <<wire, temp, target, stage, call>>
pipeVars == <<queue, latest, now, callbacks, handles, taken, late, events, event,
              drains, api, used, pureVars, infoVars, codecVars>>
vars == <<debug, client, connected, subscribed, startNotify, nextClient, connectLock,
          expectedDisconnect, opLock, pc, op, outcome, cl, res, todo, vals, ensured,
          estab, via, data, dev, fires, invoked, opsStarted, queue, latest, now,
          callbacks, handles, taken, late, events, event, drains, api, used,
          kwargs, returned, applied, model, deviceAttributes, useMetric, snapshot,
          device, modelColour, modelName, wire, temp, target, stage, call>>

(* ------------------------------ helpers -------------------------------- *)

FreeLock == [owner |-> NoTask, waiters |-> <<>>]

\* A mutation of LockAvailable: `async with` enters whoever holds the lock.
LockIgnored(l) == TRUE

\* asyncio.Lock.acquire without suspending: the lock is free and nobody waits.
LockAvailable(l) == l.owner = NoTask /\ l.waiters = <<>>

\* A mutation of LockGranted: a released lock wakes no waiter.
LockNeverGranted(l, t) == FALSE

\* asyncio.Lock.acquire resumed: the lock was released and t is the first waiter.
LockGranted(l, t) == l.owner = NoTask /\ l.waiters # <<>> /\ Head(l.waiters) = t

Acquire(l, t) == [l EXCEPT !.owner = t]
Enqueue(l, t) == [l EXCEPT !.waiters = Append(@, t)]
Grant(l, t) == [owner |-> t, waiters |-> Tail(l.waiters)]
Release(l) == [l EXCEPT !.owner = NoTask]

\* An operation: its kind, attribute and value (for a setter, the argument x
\* it was called with and the value v that argument stands for), and its
\* number n among the operations of the behaviour.
NoOp == [k |-> "none", a |-> "", v |-> DefaultValue, x |-> 0, n |-> 0]

\* The locals of a task that is between two operations.
\* update_info is applied to the same arguments twice.
Applications == 2

\* No notification was received yet.
NoEvent == [ch |-> "", code |-> 0]

\* No register_callback / unregister call was made yet.
NoCall == [f |-> "none", cb |-> "", h |-> 0]

\* No function is applied on its own.
NoApply == [f |-> "none", arg |-> <<>>, out |-> <<>>, done |-> FALSE]

\* No MugData.formatted / as_dict call was made yet.
NoSnapshot == [f |-> "none", attrs |-> {}]

NoLocals == [c |-> NoClient, r |-> "", td |-> <<>>, vs |-> <<>>, ens |-> 0,
             est |-> NoClient, via |-> ""]

\* The locals of task t as its pending await returns.
Locals(t) == [c |-> cl[t], r |-> res[t], td |-> todo[t], vs |-> vals[t],
              ens |-> ensured[t], est |-> estab[t], via |-> via[t]]

\* EmberMug after construction, but for its MugData and for the device.
SessionInit ==
    /\ debug \in BOOLEAN
    /\ client = NoClient
    /\ connected = {}
    /\ subscribed = {}
    /\ startNotify = [c \in 1..MaxClients |-> 0]
    /\ nextClient = 0
    /\ connectLock = FreeLock
    /\ expectedDisconnect = FALSE
    /\ opLock = FreeLock
    /\ pc = [t \in Tasks |-> "idle"]
    /\ op = [t \in Tasks |-> NoOp]
    /\ outcome = [t \in Tasks |-> "none"]
    /\ cl = [t \in Tasks |-> NoClient]
    /\ res = [t \in Tasks |-> ""]
    /\ todo = [t \in Tasks |-> <<>>]
    /\ vals = [t \in Tasks |-> <<>>]
    /\ ensured = [t \in Tasks |-> 0]
    /\ estab = [t \in Tasks |-> NoClient]
    /\ via = [t \in Tasks |-> ""]
    /\ fires = 0
    /\ invoked = [cb \in Callbacks |-> 0]
    /\ opsStarted = 0
    /\ queue = {}
    /\ latest = [code \in Codes |-> 0]
    /\ now = 1
    /\ callbacks = <<>>
    /\ handles = <<>>
    /\ taken = [t \in Tasks |-> {}]
    /\ late = [t \in Tasks |-> {}]
    /\ events = 0
    /\ event = NoEvent
    /\ drains = 0
    /\ api = NoCall
    /\ used = {}
    /\ returned = <<>>
    /\ applied = 0
    /\ snapshot = NoSnapshot

\* EmberMug after construction, but for its MugData, and a device holding the
\* same value in every characteristic.
EngineInit ==
    /\ SessionInit
    /\ dev = [a \in Attrs |-> DeviceDefault(a)]

\* The codec at rest: no temperature was decoded.
CodecIdle ==
    /\ wire = <<0, 0>>
    /\ temp = 0
    /\ target = <<>>
    /\ stage = "wire"
    /\ call = NoApply

\* EmberMug(ble_device, ModelInfo(m), use_metric=metric)
Constructed(m, metric) ==
    /\ model = m
    /\ deviceAttributes = DeviceAttributes(m)
    /\ useMetric = metric
    /\ device = FirstDevice
    /\ modelColour = NoColour
    /\ modelName = NotCached

\* The session of the test suite: a Mug 2 (10oz), metric.
Init ==
    /\ EngineInit
    /\ CodecIdle
    /\ Constructed(MUG_2_10_OZ, TRUE)
    /\ data = [a \in Attrs |-> FieldDefault(a)]
    /\ kwargs = <<>>

(* ------------------- the code that follows an await -------------------- *)

\* The task-local part of a step: where task t suspends next (or "done"),
\* with the operation lock and its locals L.
Core(t, at, out, ol, L) ==
    /\ pc' = [pc EXCEPT ![t] = at]
    /\ outcome' = [outcome EXCEPT ![t] = out]
    /\ opLock' = ol
    /\ cl' = [cl EXCEPT ![t] = L.c]
    /\ res' = [res EXCEPT ![t] = L.r]
    /\ todo' = [todo EXCEPT ![t] = L.td]
    /\ vals' = [vals EXCEPT ![t] = L.vs]
    /\ ensured' = [ensured EXCEPT ![t] = L.ens]
    /\ estab' = [estab EXCEPT ![t] = L.est]
    /\ via' = [via EXCEPT ![t] = L.via]

\* Task t suspends at the await `at`, the call having been made on transport c.
Suspend(t, at, c, ol, L) ==
    /\ Core(t, at, "none", ol, [L EXCEPT !.c = c])
    /\ UNCHANGED <<data, fires, invoked>>

\* The locals of an operation that has ended returning rv.
Ended(L, rv) == [L EXCEPT !.c = NoClient, !.td = <<>>, !.vs = rv]

\* The operation returns rv (out = "ok") or raises (out = "raised").
Finish(t, out, ol, L, rv) ==
    /\ Core(t, "done", out, ol, Ended(L, rv))
    /\ UNCHANGED <<data, fires, invoked>>

\* A mutation of ReleaseOnError: the lock stays held when the block raises.
KeepOnError(l) == l

\* Leaving an `async with lock:` block by an exception releases the lock.
ReleaseOnError(l) == Release(l)

\* A callback registered in self._callbacks.
Registered(cb) == \E i \in 1..Len(callbacks) : callbacks[i][1] = cb

\* A mutation of CallsPerDispatch: the loop calls each callback twice.
CallsTwice(cb) == IF Registered(cb) THEN 2 ELSE 0

\* Invocations of a callback by one _fire_callbacks loop over self._callbacks.
CallsPerDispatch(cb) == IF Registered(cb) THEN 1 ELSE 0

\* _fire_callbacks: every registered callback is called with self.data.
FireCallbacks ==
    /\ fires' = fires + 1
    /\ invoked' = [cb \in Callbacks |-> CallsPerDispatch(cb)]

\* A mutation of UpdateInfo: every supplied value is stored and reported.
RECURSIVE UpdateInfoAlways(_, _, _)
UpdateInfoAlways(d, kv, changes) ==
    IF kv = <<>> THEN [data |-> d, changes |-> changes]
    ELSE LET attr == Head(kv)[1]
             new  == Head(kv)[2]
         IN UpdateInfoAlways([d EXCEPT ![attr] = new], Tail(kv),
                             Append(changes, <<attr, d[attr], new>>))

\* MugData.update_info: store each value that differs and report it.
RECURSIVE UpdateInfo(_, _, _)
UpdateInfo(d, kv, changes) ==
    IF kv = <<>> THEN [data |-> d, changes |-> changes]
    ELSE LET attr == Head(kv)[1]
             new  == Head(kv)[2]
         IN IF d[attr] # new
            THEN UpdateInfo([d EXCEPT ![attr] = new], Tail(kv),
                            Append(changes, <<attr, d[attr], new>>))
            ELSE UpdateInfo(d, Tail(kv), changes)

\* EmberMug.has_attribute
HasAttribute(a) == a \in deviceAttributes

\* A mutation of Missing: the wrapper lets every call through.
NeverMissing(a) == FALSE

\* The wrapper of @require_attribute(a) raises NotImplementedError:
\* `self.has_attribute(attr_name) is False`.
Missing(a) == a \in RequireAttribute /\ ~HasAttribute(a)

\* _read after the operation lock is taken: self._client.read_gatt_char(...).
\* With no handle the attribute lookup on None raises AttributeError, which no
\* getter catches.
ReadIssue(t, c, ol, L) ==
    IF c = NoClient
    THEN Finish(t, "raised", ReleaseOnError(ol), L, <<>>)
    ELSE Suspend(t, "rd_io", c, ol, L)

\* _read: `async with self._operation_lock`.
ReadCall(t, c, ol, L) ==
    IF LockAvailable(ol)
    THEN ReadIssue(t, c, Acquire(ol, t), L)
    ELSE Suspend(t, "rd_wait", NoClient, Enqueue(ol, t), L)

\* The dict comprehension of _update_multiple (or the single getter call):
\* call the next getter, which raises if its attribute is required and
\* missing and reads it otherwise, or, when all are read, update_info and
\* _fire_callbacks.
NextGetter(t, o, c, ol, L) ==
    IF L.td # <<>>
    THEN IF Missing(Head(L.td))
         THEN Finish(t, "raised", ol, L, <<"NotImplementedError">>)
         ELSE ReadCall(t, c, ol, L)
    ELSE IF o.k = "get" THEN Finish(t, "ok", ol, L, L.vs)
    ELSE LET r == UpdateInfo(data, L.vs, <<>>)
         IN /\ Core(t, "done", "ok", ol, Ended(L, r.changes))
            /\ data' = r.data
            /\ IF r.changes # <<>> THEN FireCallbacks
               ELSE UNCHANGED <<fires, invoked>>

\* _write after _ensure_connection: self._client.write_gatt_char(...).
WriteIssue(t, c, ol, L) ==
    IF c = NoClient
    THEN Finish(t, "raised", ReleaseOnError(ol), L, <<>>)
    ELSE Suspend(t, "wr_io", c, ol, L)

\* The caller's code after `await self._ensure_connection()`; c is
\* self._client at that moment.
\* how: "connected" (first check), "rechecked" (second check, under the lock),
\* "established" (after subscribe()), "unsubscribed" (after a subscribe() that
\* swallowed an error of start_notify(PUSH_EVENT)) or "raised".
AfterEnsure(t, o, how, c, ol, L) ==
    LET ok == how # "raised"
        L2 == [L EXCEPT !.ens = @ + 1, !.via = how,
                        !.r = IF ok THEN "" ELSE @]
    IN CASE o.k = "connect" ->
              Finish(t, IF ok THEN "ok" ELSE "raised", ol, L2, <<>>)
         [] o.k = "set" ->
              IF ok THEN WriteIssue(t, c, ol, L2)
              ELSE Finish(t, "raised", ReleaseOnError(ol), L2, <<>>)
         [] o.k = "update" ->
              IF ok THEN NextGetter(t, o, c, ol, [L2 EXCEPT !.td = INITIAL_ATTRS])
              ELSE Finish(t, "raised", ol, L2, <<>>)
         [] o.k \in {"queued", "update_all"} ->
              IF ok THEN NextGetter(t, o, c, ol, L2)
              ELSE Finish(t, "raised", ol, L2, <<>>)
         [] o.k = "with" ->
              IF ok THEN Suspend(t, "in_block", NoClient, ol, L2)
              ELSE Finish(t, "raised", ol, L2, <<>>)

(* -------------------------- _ensure_connection ------------------------- *)

\* self._client is not None and self._client.is_connected
IsConnected == client # NoClient /\ client \in connected

\* A mutation of Recheck: no second check, the waiter always establishes.
NoRecheck == FALSE

\* The second check, made once the connection lock is held.
Recheck == IsConnected

\* establish_connection(...) is called with the connection lock held.
EstablishCall(t, ol, L) == Suspend(t, "ec_establish", NoClient, ol, L)

\* Entry of _ensure_connection.
EcEnter(t, o, ol, L) ==
    IF IsConnected
    THEN /\ AfterEnsure(t, o, "connected", client, ol, L)
         /\ UNCHANGED connVars
    ELSE IF LockAvailable(connectLock)
    THEN /\ connectLock' = Acquire(connectLock, t)
         /\ EstablishCall(t, ol, L)
         /\ UNCHANGED <<client, connected, subscribed, startNotify, nextClient,
                        expectedDisconnect>>
    ELSE /\ connectLock' = Enqueue(connectLock, t)
         /\ Suspend(t, "ec_wait", NoClient, ol, L)
         /\ UNCHANGED <<client, connected, subscribed, startNotify, nextClient,
                        expectedDisconnect>>

\* The connection lock is granted to a waiting _ensure_connection.
EcAcquired(t) ==
    /\ pc[t] = "ec_wait"
    /\ LockGranted(connectLock, t)
    /\ IF Recheck
       THEN /\ connectLock' = Release(Grant(connectLock, t))
            /\ AfterEnsure(t, op[t], "rechecked", client, opLock, Locals(t))
       ELSE /\ connectLock' = Grant(connectLock, t)
            /\ EstablishCall(t, opLock, Locals(t))
    /\ UNCHANGED <<client, connected, subscribed, startNotify, nextClient,
                   expectedDisconnect>>
    /\ UNCHANGED <<debug, op, dev, opsStarted, pipeVars>>

\* _ensure_connection returns to its caller, leaving `async with self._connect_lock`.
EcReturn(t, how, c, L) ==
    /\ connectLock' = IF how # "raised" THEN Release(connectLock)
                      ELSE ReleaseOnError(connectLock)
    /\ AfterEnsure(t, op[t], how, c, opLock, L)

\* establish_connection returned a transport.  In debug mode the services are
\* dumped first; then _expected_disconnect is reset and client.pair() is called.
EstablishOk(t) ==
    /\ pc[t] = "ec_establish"
    /\ nextClient < MaxClients
    /\ LET c == nextClient + 1
           L == [Locals(t) EXCEPT !.est = c]
       IN /\ nextClient' = c
          /\ connected' = connected \cup {c}
          /\ IF debug
             THEN /\ Suspend(t, "ec_discover", c, opLock, L)
                  /\ UNCHANGED expectedDisconnect
             ELSE /\ Suspend(t, "ec_pair", c, opLock, L)
                  /\ expectedDisconnect' = FALSE
    /\ UNCHANGED <<client, subscribed, startNotify, connectLock>>
    /\ UNCHANGED <<debug, op, dev, opsStarted, pipeVars>>

\* A mutation of EstablishErrorOutcome: the handler logs and does not re-raise.
EstablishErrorSwallowed == "established"

\* The handler of the establish block ends in `raise error`.
EstablishErrorOutcome == "raised"

\* establish_connection raised TimeoutError or BleakError: logged and re-raised.
EstablishFail(t) ==
    /\ pc[t] = "ec_establish"
    /\ EcReturn(t, EstablishErrorOutcome, client, Locals(t))
    /\ UNCHANGED <<client, connected, subscribed, startNotify, nextClient,
                   expectedDisconnect>>
    /\ UNCHANGED <<debug, op, dev, opsStarted, pipeVars>>

\* debug only: utils.discover_services(client) returned.
DiscoverOk(t) ==
    /\ pc[t] = "ec_discover"
    /\ expectedDisconnect' = FALSE
    /\ Suspend(t, "ec_pair", cl[t], opLock, Locals(t))
    /\ UNCHANGED <<client, connected, subscribed, startNotify, nextClient, connectLock>>
    /\ UNCHANGED <<debug, op, dev, opsStarted, pipeVars>>

\* debug only: a descriptor read of discover_services raised BleakError, which
\* the same handler re-raises.
DiscoverFail(t) ==
    /\ pc[t] = "ec_discover"
    /\ EcReturn(t, "raised", client, Locals(t))
    /\ UNCHANGED <<client, connected, subscribed, startNotify, nextClient,
                   expectedDisconnect>>
    /\ UNCHANGED <<debug, op, dev, opsStarted, pipeVars>>

\* A mutation of StartNotifyCalled: subscribe() is not called.
StartNotifySkipped(c) == startNotify

\* subscribe(): one start_notify(PUSH_EVENT) call on transport c.
StartNotifyCalled(c) == [startNotify EXCEPT ![c] = @ + 1]

\* A mutation of PairFatal: NotImplementedError is not caught.
PairFatalUnlessBleak(r) == r \notin {"ok", "BleakError", "EOFError"}

\* client.pair() raised something the two except clauses do not catch.
PairFatal(r) == r \notin {"ok", "BleakError", "EOFError", "NotImplementedError"}

\* client.pair() returned or raised r.  Unless fatal: self._client = client,
\* then subscribe() calls start_notify(PUSH_EVENT) on self._client.
Paired(t, r) ==
    /\ pc[t] = "ec_pair"
    /\ IF PairFatal(r)
       THEN /\ EcReturn(t, "raised", client, [Locals(t) EXCEPT !.r = r])
            /\ UNCHANGED <<client, startNotify>>
       ELSE /\ client' = cl[t]
            /\ startNotify' = StartNotifyCalled(cl[t])
            /\ Suspend(t, "ec_subscribe", cl[t], opLock, [Locals(t) EXCEPT !.r = r])
            /\ UNCHANGED connectLock
    /\ UNCHANGED <<connected, subscribed, nextClient, expectedDisconnect>>
    /\ UNCHANGED <<debug, op, dev, opsStarted, pipeVars>>

\* start_notify(PUSH_EVENT) returned.  In debug mode subscribe() goes on to
\* start_notify(STATISTICS) on self._client, which raises AttributeError
\* (swallowed by `except Exception`) if the handle was cleared meanwhile.
SubscribeOk(t) ==
    /\ pc[t] = "ec_subscribe"
    /\ cl[t] \in connected
    /\ subscribed' = subscribed \cup {cl[t]}
    /\ IF debug /\ client # NoClient
       THEN /\ Suspend(t, "ec_subscribe_stats", client, opLock, Locals(t))
            /\ UNCHANGED connectLock
       ELSE EcReturn(t, "established", client, Locals(t))
    /\ UNCHANGED <<client, connected, startNotify, nextClient, expectedDisconnect>>
    /\ UNCHANGED <<debug, op, dev, opsStarted, pipeVars>>

\* start_notify(PUSH_EVENT) raised: subscribe() logs a warning and returns.
SubscribeFail(t) ==
    /\ pc[t] = "ec_subscribe"
    /\ EcReturn(t, "unsubscribed", client, Locals(t))
    /\ UNCHANGED <<client, connected, subscribed, startNotify, nextClient,
                   expectedDisconnect>>
    /\ UNCHANGED <<debug, op, dev, opsStarted, pipeVars>>

\* debug only: start_notify(STATISTICS) returned or raised (swallowed).
SubscribeStatsDone(t) ==
    /\ pc[t] = "ec_subscribe_stats"
    /\ EcReturn(t, "established", client, Locals(t))
    /\ UNCHANGED <<client, connected, subscribed, startNotify, nextClient,
                   expectedDisconnect>>
    /\ UNCHANGED <<debug, op, dev, opsStarted, pipeVars>>

(* ------------------------------ disconnect ----------------------------- *)

\* A mutation of HandleCleared: disconnect() leaves the handle as it is.
HandleKept(h) == h

\* `self._client = None`, the statement after the `if` of disconnect().
HandleCleared(h) == NoClient

\* `await self._client.disconnect()` inside the connection lock; with the
\* handle already cleared the attribute lookup on None raises AttributeError.
CloseCall(t, cll) ==
    IF client = NoClient
    THEN /\ connectLock' = ReleaseOnError(cll)
         /\ Finish(t, "raised", opLock, NoLocals, <<>>)
    ELSE /\ connectLock' = cll
         /\ Suspend(t, "dc_close", client, opLock, NoLocals)

\* disconnect() with the connection lock held: unsubscribe() returns at once
\* when there is no handle, else calls stop_notify(PUSH_EVENT).
DcLocked(t, cll) ==
    IF client = NoClient
    THEN CloseCall(t, cll)
    ELSE /\ connectLock' = cll
         /\ Suspend(t, "dc_unsub", client, opLock, NoLocals)

\* The connection lock is granted to a waiting disconnect().
DcAcquired(t) ==
    /\ pc[t] = "dc_wait"
    /\ LockGranted(connectLock, t)
    /\ DcLocked(t, Grant(connectLock, t))
    /\ UNCHANGED <<client, connected, subscribed, startNotify, nextClient,
                   expectedDisconnect>>
    /\ UNCHANGED <<debug, op, dev, opsStarted, pipeVars>>

\* stop_notify(PUSH_EVENT) returned.  In debug mode stop_notify(STATISTICS) is
\* called on self._client, an AttributeError if the handle was cleared.
UnsubscribeOk(t) ==
    /\ pc[t] = "dc_unsub"
    /\ cl[t] \in connected
    /\ subscribed' = subscribed \ {cl[t]}
    /\ IF debug
       THEN IF client = NoClient
            THEN /\ connectLock' = ReleaseOnError(connectLock)
                 /\ Finish(t, "raised", opLock, NoLocals, <<>>)
            ELSE /\ Suspend(t, "dc_unsub_stats", client, opLock, NoLocals)
                 /\ UNCHANGED connectLock
       ELSE CloseCall(t, connectLock)
    /\ UNCHANGED <<client, connected, startNotify, nextClient, expectedDisconnect>>
    /\ UNCHANGED <<debug, op, dev, opsStarted, pipeVars>>

\* stop_notify(PUSH_EVENT) raised BleakError: suppressed, the block is left.
UnsubscribeFail(t) ==
    /\ pc[t] = "dc_unsub"
    /\ CloseCall(t, connectLock)
    /\ UNCHANGED <<client, connected, subscribed, startNotify, nextClient,
                   expectedDisconnect>>
    /\ UNCHANGED <<debug, op, dev, opsStarted, pipeVars>>

\* debug only: stop_notify(STATISTICS) returned or raised BleakError.
UnsubscribeStatsDone(t) ==
    /\ pc[t] = "dc_unsub_stats"
    /\ CloseCall(t, connectLock)
    /\ UNCHANGED <<client, connected, subscribed, startNotify, nextClient,
                   expectedDisconnect>>
    /\ UNCHANGED <<debug, op, dev, opsStarted, pipeVars>>

\* client.disconnect() returned: the lock is left, the handle cleared.
CloseOk(t) ==
    /\ pc[t] = "dc_close"
    /\ connected' = connected \ {cl[t]}
    /\ subscribed' = subscribed \ {cl[t]}
    /\ connectLock' = Release(connectLock)
    /\ client' = HandleCleared(client)
    /\ expectedDisconnect' = FALSE
    /\ Finish(t, "ok", opLock, NoLocals, <<>>)
    /\ UNCHANGED <<startNotify, nextClient, debug, op, dev, opsStarted, pipeVars>>

\* client.disconnect() raised: the error leaves disconnect().
CloseFail(t) ==
    /\ pc[t] = "dc_close"
    /\ connectLock' = ReleaseOnError(connectLock)
    /\ Finish(t, "raised", opLock, NoLocals, <<>>)
    /\ UNCHANGED <<client, connected, subscribed, startNotify, nextClient,
                   expectedDisconnect>>
    /\ UNCHANGED <<debug, op, dev, opsStarted, pipeVars>>

(* ---------------------------- _read / _write --------------------------- *)

\* A mutation of WriteEnsuresConnection: _write goes straight to the transport.
WriteSkipsConnection == FALSE

\* _write calls _ensure_connection before the transport write.
WriteEnsuresConnection == TRUE

\* _write with the operation lock held.
WriteLocked(t, o, ol, L) ==
    IF WriteEnsuresConnection
    THEN EcEnter(t, o, ol, L)
    ELSE /\ WriteIssue(t, client, ol, L)
         /\ UNCHANGED connVars

\* The operation lock is granted to a waiting _write.
WrAcquired(t) ==
    /\ pc[t] = "wr_wait"
    /\ LockGranted(opLock, t)
    /\ WriteLocked(t, op[t], Grant(opLock, t), Locals(t))
    /\ UNCHANGED <<debug, op, dev, opsStarted, pipeVars>>

\* The operation lock is granted to a waiting _read.
RdAcquired(t) ==
    /\ pc[t] = "rd_wait"
    /\ LockGranted(opLock, t)
    /\ ReadIssue(t, client, Grant(opLock, t), Locals(t))
    /\ UNCHANGED connVars
    /\ UNCHANGED <<debug, op, dev, opsStarted, pipeVars>>

\* The comprehension's state once attribute Head(td) has yielded value v.
Got(L, v) == [L EXCEPT !.td = Tail(@), !.vs = Append(@, <<Head(L.td), v>>)]

\* read_gatt_char returned: the getter decodes the value.
ReadOk(t) ==
    /\ pc[t] = "rd_io"
    /\ cl[t] \in connected
    /\ NextGetter(t, op[t], client, Release(opLock),
                  Got(Locals(t), dev[Head(todo[t])]))
    /\ UNCHANGED connVars
    /\ UNCHANGED <<debug, op, dev, opsStarted, pipeVars>>

\* What a getter yields when read_gatt_char raised BleakError and it catches it.
BestEffortValue(a) == IF a = "udsk" THEN NoneValue ELSE EmptyValue

\* read_gatt_char raised BleakError: get_udsk and get_dsk catch it, the other
\* getters let it through.
ReadFail(t) ==
    /\ pc[t] = "rd_io"
    /\ LET a == Head(todo[t])
       IN IF a \in BestEffortAttrs
          THEN NextGetter(t, op[t], client, Release(opLock),
                          Got(Locals(t), BestEffortValue(a)))
          ELSE Finish(t, "raised", ReleaseOnError(opLock), Locals(t), <<>>)
    /\ UNCHANGED connVars
    /\ UNCHANGED <<debug, op, dev, opsStarted, pipeVars>>

\* A mutation of SetterStores: the slot is assigned whatever _write did.
SetterStoresAnyway(ok) == TRUE

\* A setter assigns its MugData slot after `await self._write(...)`: only when
\* the write did not raise.
SetterStores(ok) == ok

\* write_gatt_char returned or raised BleakError (logged and re-raised).
WriteDone(t, ok) ==
    /\ pc[t] = "wr_io"
    /\ ok => cl[t] \in connected
    /\ LET a == op[t].a
       IN /\ Core(t, "done", IF ok THEN "ok" ELSE "raised",
                  IF ok THEN Release(opLock) ELSE ReleaseOnError(opLock),
                  Ended(Locals(t), <<>>))
          /\ dev' = IF ok THEN [dev EXCEPT ![a] = op[t].v] ELSE dev
          /\ data' = IF SetterStores(ok) THEN [data EXCEPT ![a] = op[t].v] ELSE data
    /\ UNCHANGED <<fires, invoked>>
    /\ UNCHANGED connVars
    /\ UNCHANGED <<debug, op, opsStarted, pipeVars>>

(* ------------------------- starting an operation ----------------------- *)

\* A task is between operations and the behaviour's budget is not spent: MaxOps
\* operations other than queued refreshes, and one more operation in all.  Tasks
\* are numbered in the order in which they first call into the engine.
CanStart(t) ==
    /\ pc[t] \in {"idle", "done"}
    /\ opsStarted < MaxOps
    /\ opsStarted + drains <= MaxOps
    /\ pc[t] = "idle" => \A u \in Tasks : u < t => pc[u] # "idle"

Started(t, o) ==
    /\ op' = [op EXCEPT ![t] = [o EXCEPT !.n = opsStarted + drains + 1]]
    /\ opsStarted' = opsStarted + 1
    /\ UNCHANGED <<debug, dev, pipeVars>>

\* connection(): `await self._ensure_connection()`.
StartConnect(t) ==
    /\ CanStart(t)
    /\ LET o == [NoOp EXCEPT !.k = "connect"]
       IN Started(t, o) /\ EcEnter(t, o, opLock, NoLocals)

\* The body of disconnect(expected) up to its first await: with a connected
\* transport it enters the connection lock, else it clears the handle and returns.
Disconnect(t, x) ==
    IF IsConnected
    THEN /\ expectedDisconnect' = x
         /\ IF LockAvailable(connectLock)
            THEN DcLocked(t, Acquire(connectLock, t))
            ELSE /\ connectLock' = Enqueue(connectLock, t)
                 /\ Suspend(t, "dc_wait", NoClient, opLock, NoLocals)
         /\ UNCHANGED <<client, connected, subscribed, startNotify, nextClient>>
    ELSE /\ client' = HandleCleared(client)
         /\ expectedDisconnect' = FALSE
         /\ Finish(t, "ok", opLock, NoLocals, <<>>)
         /\ UNCHANGED <<connected, subscribed, startNotify, nextClient, connectLock>>

\* disconnect(expected).
StartDisconnect(t, x) ==
    /\ CanStart(t)
    /\ Started(t, [NoOp EXCEPT !.k = "disconnect"])
    /\ Disconnect(t, x)

\* `async with mug.connection():` is entered: set_client_options(), then
\* `await self._ensure_connection()`; the generator yields once that returned.
EnterConnection(t) ==
    /\ CanStart(t)
    /\ LET o == [NoOp EXCEPT !.k = "with"]
       IN Started(t, o) /\ EcEnter(t, o, opLock, NoLocals)

\* The block of `async with mug.connection():` is left.  Left normally, the
\* generator resumes after its `yield self` and awaits disconnect(); left by
\* an exception, the exception is thrown into the generator at the `yield`,
\* which no try statement encloses, and leaves connection() at once.
ExitConnection(t, raises) ==
    /\ pc[t] = "in_block"
    /\ IF raises
       THEN /\ Finish(t, "raised", opLock, Locals(t), <<>>)
            /\ UNCHANGED connVars
       ELSE Disconnect(t, TRUE)
    /\ UNCHANGED <<debug, op, dev, opsStarted, pipeVars>>

\* A getter: get_<a>() -> _read, through the wrapper of @require_attribute
\* where there is one (NextGetter).
StartGet(t, a) ==
    /\ CanStart(t)
    /\ LET o == [NoOp EXCEPT !.k = "get", !.a = a]
       IN Started(t, o) /\ NextGetter(t, o, client, opLock, [NoLocals EXCEPT !.td = <<a>>])
    /\ UNCHANGED connVars

\* A mutation of InRange: the range is that of the unit the device is set to.
InRangeOfDeviceUnit(x) ==
    LET range == MIN_MAX_TEMPS(data["temperature_unit"])
    IN x = 0 \/ (range.min_temp <= x /\ x <= range.max_temp)

\* set_target_temp's range check, in the unit the user prefers:
\* target_temp == 0 or min_temp <= target_temp <= max_temp.
InRange(x) ==
    LET range == MIN_MAX_TEMPS(IF useMetric THEN CELSIUS ELSE FAHRENHEIT)
    IN x = 0 \/ (range.min_temp <= x /\ x <= range.max_temp)

\* The check a setter makes on its argument before it calls _write;
\* set_temperature_unit makes none.
Valid(a, x) ==
    CASE a = "target_temp" -> InRange(x)
      [] a = "name" -> NameMatches(x)
      [] a = "volume_level" -> x \in {0, 1, 2}
      [] OTHER -> TRUE

\* The value the argument stands for in MugData and on the device: the unit
\* itself for set_temperature_unit, and for the other setters the value "b"
\* the device does not hold yet.
SetterValue(a, x) ==
    IF ~Valid(a, x) THEN OutOfRange
    ELSE IF a = "temperature_unit" THEN x
    ELSE "b"

\* A setter, called with x: NotImplementedError from the wrapper of
\* @require_attribute, ValueError from the setter's own check, or
\* _write -> self.data.<a> = value.
StartSet(t, a, x) ==
    /\ CanStart(t)
    /\ LET o == [NoOp EXCEPT !.k = "set", !.a = a, !.v = SetterValue(a, x), !.x = x]
       IN /\ Started(t, o)
          /\ IF Missing(a)
             THEN /\ Finish(t, "raised", opLock, NoLocals, <<"NotImplementedError">>)
                  /\ UNCHANGED connVars
             ELSE IF ~Valid(a, x)
             THEN /\ Finish(t, "raised", opLock, NoLocals, <<"ValueError">>)
                  /\ UNCHANGED connVars
             ELSE IF LockAvailable(opLock)
             THEN WriteLocked(t, o, Acquire(opLock, t), NoLocals)
             ELSE /\ Suspend(t, "wr_wait", NoClient, Enqueue(opLock, t), NoLocals)
                  /\ UNCHANGED connVars

\* update_initial(): _update_multiple(INITIAL_ATTRS).
StartUpdateInitial(t) ==
    /\ CanStart(t)
    /\ LET o == [NoOp EXCEPT !.k = "update"]
       IN Started(t, o) /\ EcEnter(t, o, opLock, NoLocals)

\* The order in which update_all's comprehension goes through the attributes
\* that are not in INITIAL_ATTRS (the iteration order of the set, taken as fixed).
UPDATE_ORDER == <<"name", "led_colour", "current_temp", "target_temp",
                  "temperature_unit", "battery", "liquid_level", "liquid_state",
                  "battery_voltage", "volume_level">>

\* update_all(): _update_multiple(device_attributes - INITIAL_ATTRS), the
\* difference being taken before _update_multiple is entered.
StartUpdateAll(t) ==
    /\ CanStart(t)
    /\ LET o == [NoOp EXCEPT !.k = "update_all"]
           attrs == deviceAttributes \ InitialAttrs
       IN /\ Started(t, o)
          /\ EcEnter(t, o, opLock,
                     [NoLocals EXCEPT !.td = SelectSeq(UPDATE_ORDER,
                                                       LAMBDA a : a \in attrs)])

\* update_queued_attributes may start: a task is between operations and the
\* behaviour's budget of queued refreshes is not spent.
CanStartQueued(t) ==
    /\ pc[t] \in {"idle", "done"}
    /\ drains < MaxDrains
    /\ opsStarted + drains <= MaxOps
    /\ pc[t] = "idle" => \A u \in Tasks : u < t => pc[u] # "idle"

\* The orders in which a set may be iterated.
Orders(S) ==
    {s \in [1..Cardinality(S) -> S] :
        \A i, j \in 1..Cardinality(S) : s[i] = s[j] => i = j}

\* A mutation of Cleared: the queue is left as it was.
NotCleared(q) == q

\* What remains of self._queued_updates once update_queued_attributes has
\* copied it: self._queued_updates.clear().
Cleared(q) == {}

\* A mutation of NothingQueued: the call goes on with an empty queue.
AlwaysQueued(q) == FALSE

\* update_queued_attributes: `if not self._queued_updates: return []`
NothingQueued(q) == q = {}

\* update_queued_attributes(): nothing to do on an empty queue; otherwise the
\* queue is copied and cleared, and the copy is read after _ensure_connection.
StartUpdateQueued(t) ==
    /\ CanStartQueued(t)
    /\ LET o == [NoOp EXCEPT !.k = "queued"]
       IN /\ op' = [op EXCEPT ![t] = [o EXCEPT !.n = opsStarted + drains + 1]]
          /\ drains' = drains + 1
          /\ taken' = [taken EXCEPT ![t] = queue]
          /\ late' = [late EXCEPT ![t] = {}]
          /\ IF NothingQueued(queue)
             THEN /\ Finish(t, "ok", opLock, NoLocals, <<>>)
                  /\ UNCHANGED queue
                  /\ UNCHANGED connVars
             ELSE /\ queue' = Cleared(queue)
                  /\ \E s \in Orders(queue) :
                        EcEnter(t, o, opLock, [NoLocals EXCEPT !.td = s])
    /\ UNCHANGED <<debug, dev, opsStarted, latest, now, callbacks, handles, events,
                   event, api, used, pureVars, infoVars, codecVars>>

(* ------------------------------ callbacks ------------------------------ *)

\* self._callbacks.get(callback): the handle stored for the callback (0: none).
HandleOf(cb) ==
    IF Registered(cb)
    THEN LET i == CHOOSE i \in 1..Len(callbacks) : callbacks[i][1] = cb
         IN callbacks[i][2]
    ELSE 0

\* A mutation of AlreadyRegistered: the lookup never finds the callback.
NeverAlreadyRegistered(cb) == FALSE

\* register_callback: `if existing_unregister_callback := self._callbacks.get(callback)`
AlreadyRegistered(cb) == HandleOf(cb) # 0

\* register_callback(cb): the stored handle if there is one, else a new
\* closure over cb, stored under cb.
Register(cb) ==
    /\ IF AlreadyRegistered(cb)
       THEN /\ api' = [f |-> "register", cb |-> cb, h |-> HandleOf(cb)]
            /\ UNCHANGED <<callbacks, handles>>
       ELSE LET h == Len(handles) + 1
            IN /\ Len(handles) < MaxHandles
               /\ handles' = Append(handles, cb)
               /\ callbacks' = Append(callbacks, <<cb, h>>)
               /\ api' = [f |-> "register", cb |-> cb, h |-> h]
    /\ UNCHANGED <<queue, latest, now, taken, late, events, event, drains, used,
                   pureVars, infoVars, codecVars>>
    /\ UNCHANGED connVars
    /\ UNCHANGED tailVars
    /\ UNCHANGED <<debug, op, dev, opsStarted>>

\* A mutation of Removed: the entry stays.
RemovedNothing(cbs, cb) == cbs

\* unregister_callback: `if callback in self._callbacks: del self._callbacks[callback]`
Removed(cbs, cb) == SelectSeq(cbs, LAMBDA p : p[1] # cb)

\* The handle h returned by an earlier register_callback is invoked.
Unregister(h) ==
    /\ h \in 1..Len(handles)
    /\ callbacks' = Removed(callbacks, handles[h])
    /\ used' = used \cup {h}
    /\ api' = [f |-> "unregister", cb |-> handles[h], h |-> h]
    /\ UNCHANGED <<queue, latest, now, handles, taken, late, events, event, drains,
                   pureVars, infoVars, codecVars>>
    /\ UNCHANGED connVars
    /\ UNCHANGED tailVars
    /\ UNCHANGED <<debug, op, dev, opsStarted>>

(* ---------------------------- notifications ---------------------------- *)

\* The window within which a repeated event code is ignored.
DebounceWindow == 5

\* A mutation of QueuedBy: CHARGER_DISCONNECTED queues nothing.
QueuedByExceptThree(code) ==
    CASE code \in {1, 2} -> {"battery"}
      [] code = 4 -> {"target_temp"}
      [] code = 5 -> {"current_temp"}
      [] code = 7 -> {"liquid_level"}
      [] code = 8 -> {"liquid_state"}
      [] code = 9 -> {"battery_voltage"}
      [] OTHER -> {}

\* The if / elif chain of _notify_callback: what an event code adds to
\* self._queued_updates.
QueuedBy(code) ==
    CASE code \in PUSH_EVENT_BATTERY_IDS -> {"battery"}
      [] code = 4 -> {"target_temp"}
      [] code = 5 -> {"current_temp"}
      [] code = 7 -> {"liquid_level"}
      [] code = 8 -> {"liquid_state"}
      [] code = 9 -> {"battery_voltage"}
      [] OTHER -> {}

\* A mutation of Debounced: the window is never applied.
NeverDebounced(code) == FALSE

\* A mutation of Debounced: a code is ignored while its attribute is queued.
DebouncedWhilePending(code) ==
    latest[code] # 0 /\ QueuedBy(code) # {} /\ QueuedBy(code) \subseteq queue

\* `(last_time := self._latest_events.get(event_id)) and now - last_time < 5`
Debounced(code) == latest[code] # 0 /\ now - latest[code] < DebounceWindow

\* A mutation of ChargerBattery: the percentage is reset.
ChargerBatteryReset(b, code) == BatteryInfo(0, code = 2)

\* BatteryInfo(percent=self.data.battery.percent if self.data.battery else 0,
\*             on_charging_base=event_id == PushEvent.CHARGER_CONNECTED)
ChargerBattery(b, code) ==
    BatteryInfo(IF b # NoneValue THEN Percent(b) ELSE 0, code = 2)

\* A task is inside update_queued_attributes, past the copy of the queue.
Draining(t) == op[t].k = "queued" /\ pc[t] \notin {"idle", "done"}

\* _notify_callback(characteristic, data) with data[0] = code.  STATISTICS is
\* only subscribed to in debug mode.
Notify(ch, code) ==
    /\ events < MaxEvents
    /\ ch = "stats" => debug
    /\ events' = events + 1
    /\ event' = [ch |-> ch, code |-> code]
    /\ IF Debounced(code)
       THEN UNCHANGED <<latest, queue, late, data, fires, invoked>>
       ELSE /\ latest' = [latest EXCEPT ![code] = now]
            /\ IF ch = "stats"
               THEN UNCHANGED <<queue, late, data, fires, invoked>>
               ELSE /\ queue' = queue \cup QueuedBy(code)
                    /\ late' = [t \in Tasks |->
                                  IF Draining(t) THEN late[t] \cup QueuedBy(code)
                                  ELSE late[t]]
                    /\ IF code \in {2, 3}
                       THEN /\ data' = [data EXCEPT
                                          !["battery"] = ChargerBattery(@, code)]
                            /\ FireCallbacks
                       ELSE UNCHANGED <<data, fires, invoked>>
    /\ UNCHANGED <<opLock, pc, outcome, cl, res, todo, vals, ensured, estab, via>>
    /\ UNCHANGED connVars
    /\ UNCHANGED <<debug, op, dev, opsStarted, now, callbacks, handles, taken, drains,
                   api, used, pureVars, infoVars, codecVars>>

\* The transport delivers a PUSH_EVENT notification to _notify_callback: it holds
\* a subscription made by start_notify.
Deliver(code) ==
    /\ subscribed # {}
    /\ Notify("push", code)

\* time() advances.
Tick ==
    /\ now < MaxTime
    /\ now' = now + 1
    /\ UNCHANGED <<queue, latest, callbacks, handles, taken, late, events, event,
                   drains, api, used, pureVars, infoVars, codecVars>>
    /\ UNCHANGED connVars
    /\ UNCHANGED tailVars
    /\ UNCHANGED <<debug, op, dev, opsStarted>>

(* ----------------------------- update_info ---------------------------- *)

\* The slots update_info is applied to, and the values each may hold or be
\* given: its field default, the None of a failed read of udsk, and the values
\* getters return.
UpdateInfoAttrs == {"udsk", "dsk", "target_temp"}
SlotValues(a) ==
    IF a = "udsk" THEN {EmptyValue, NoneValue} \cup DeviceValues
    ELSE {FieldDefault(a)} \cup DeviceValues

\* The keyword arguments of one call: at most MaxKwargs pairs, each attribute
\* at most once, in the order they are written.
Pairs == UNION {{<<a, v>> : v \in SlotValues(a)} : a \in UpdateInfoAttrs}
KwargsSet ==
    UNION {{kv \in [1..n -> Pairs] :
               \A i, j \in 1..n : kv[i][1] = kv[j][1] => i = j} : n \in 0..MaxKwargs}

\* A MugData whose slots hold any of their values, and the arguments of a call.
UpdateInfoInit ==
    /\ EngineInit
    /\ CodecIdle
    /\ Constructed(MUG_2_10_OZ, TRUE)
    /\ \E f \in [UpdateInfoAttrs -> UNION {SlotValues(a) : a \in UpdateInfoAttrs}] :
          /\ \A a \in UpdateInfoAttrs : f[a] \in SlotValues(a)
          /\ data = [a \in Attrs |-> IF a \in UpdateInfoAttrs THEN f[a]
                                     ELSE FieldDefault(a)]
    /\ kwargs \in KwargsSet

\* self.data.update_info(**kwargs), called once and then once more.
ApplyUpdateInfo ==
    /\ applied < Applications
    /\ LET r == UpdateInfo(data, kwargs, <<>>)
       IN data' = r.data /\ returned' = r.changes
    /\ applied' = applied + 1
    /\ UNCHANGED <<queue, latest, now, callbacks, handles, taken, late, events, event,
                   drains, api, used, kwargs, infoVars, codecVars>>
    /\ UNCHANGED <<opLock, pc, outcome, cl, res, todo, vals, ensured, estab, via,
                   fires, invoked>>
    /\ UNCHANGED connVars
    /\ UNCHANGED <<debug, op, dev, opsStarted>>

(* -------------------------- temperature codec -------------------------- *)

\* The values of one byte, and the bytes objects of length two.
ByteValues == 0..255
WireValues == {<<lo, hi>> : lo \in ByteValues, hi \in ByteValues}

\* Floats are kept in fixed point: Grain units to the hundredth of a degree.
\* One float operation (the product with 0.01, the quotient by 0.01) yields
\* the exact result or a neighbour of it, an error far above that of a double
\* on values below 656.
Grain == 8
FloatError == {-1, 0, 1}

\* int.from_bytes(data, byteorder="little", signed=False), on two bytes.
BytesToLittleInt(b) == b[1] + 256 * b[2]

\* temp_from_bytes: float(bytes_to_little_int(temp_bytes)) * 0.01, the product
\* being off by e.
TempFromBytes(b, e) == BytesToLittleInt(b) * Grain + e

\* A mutation of Round: int(), which drops the fraction.
Truncate(q) == IF q >= 0 THEN q \div Grain ELSE -((-q) \div Grain)

\* round(q): the nearest integer, the even one of two equally near.
Round(q) ==
    LET f == q \div Grain
        r == q % Grain
    IN IF 2 * r < Grain THEN f
       ELSE IF 2 * r > Grain THEN f + 1
       ELSE IF f % 2 = 0 THEN f ELSE f + 1

\* n.to_bytes(2, "little"); OverflowError (no bytes) when n does not fit.
ToBytes(n) ==
    IF n \in 0..(256 * 256 - 1) THEN <<n % 256, n \div 256>> ELSE <<>>

\* bytearray(round(target_temp / 0.01).to_bytes(2, "little")), the quotient
\* being off by e.
TargetBytes(value, e) == ToBytes(Round(value + e))

\* A temperature characteristic holding any two bytes.
CodecInit ==
    /\ EngineInit
    /\ debug = FALSE
    /\ Constructed(MUG_2_10_OZ, TRUE)
    /\ data = [a \in Attrs |-> FieldDefault(a)]
    /\ kwargs = <<>>
    /\ wire \in WireValues
    /\ temp = 0
    /\ target = <<>>
    /\ stage = "wire"
    /\ call = NoApply

CodecUnchanged ==
    /\ UNCHANGED <<queue, latest, now, callbacks, handles, taken, late, events, event,
                   drains, api, used, pureVars, infoVars>>
    /\ UNCHANGED tailVars
    /\ UNCHANGED connVars
    /\ UNCHANGED <<debug, op, dev, opsStarted>>

\* temp_from_bytes(wire)
Decode ==
    /\ stage = "wire"
    /\ \E e \in FloatError : temp' = TempFromBytes(wire, e)
    /\ stage' = "decoded"
    /\ UNCHANGED <<wire, target, call>>
    /\ CodecUnchanged

\* The decoded temperature is encoded as set_target_temp encodes its argument.
Encode ==
    /\ stage = "decoded"
    /\ \E e \in FloatError : target' = TargetBytes(temp, e)
    /\ stage' = "encoded"
    /\ UNCHANGED <<wire, temp, call>>
    /\ CodecUnchanged

CodecNext == Decode \/ Encode

CodecSpec == CodecInit /\ [][CodecNext]_vars

(* ----------------------- functions on their own ----------------------- *)

\* A session on which function f is about to be applied to one of Inputs.
ApplyInit(f, Inputs) ==
    /\ EngineInit
    /\ debug = FALSE
    /\ Constructed(MUG_2_10_OZ, TRUE)
    /\ data = [a \in Attrs |-> FieldDefault(a)]
    /\ kwargs = <<>>
    /\ wire = <<0, 0>> /\ temp = 0 /\ target = <<>> /\ stage = "wire"
    /\ call \in {[f |-> f, arg |-> i, out |-> <<>>, done |-> FALSE] : i \in Inputs}

\* Function f returns out.
Applied(f, out) ==
    /\ call.f = f /\ ~call.done
    /\ call' = [call EXCEPT !.out = out, !.done = TRUE]
    /\ UNCHANGED <<wire, temp, target, stage>>
    /\ CodecUnchanged

\* Colour(red, green, blue, brightness), the components a caller may pass.
ColourParts == {0, 100, 161, 244, 255}
Colours == {<<r, g, b, a>> : r \in ColourParts, g \in ColourParts,
                             b \in ColourParts, a \in ColourParts}

\* Colour.as_bytearray(): bytearray(c for c in self)
AsBytearray(colour) == colour

\* set_led_colour(colour): the bytes it passes to _write.
SetLedColour == Applied("set_led_colour", AsBytearray(call.arg))

LedInit == ApplyInit("set_led_colour", Colours)
LedSpec == LedInit /\ [][SetLedColour]_vars

\* Text is the sequence of its code points, all of them ASCII here, so that
\* str.encode() and bytes.decode() keep the numbers.  The longest udsk tried
\* and the characters it is made of ("1", "a", "b").
MaxTextLength == 4
TextChars == {49, 97, 98}
Texts == UNION {[1..n -> TextChars] : n \in 0..MaxTextLength}

\* The base64 alphabet: the character standing for the six bits i.
B64Char(i) ==
    IF i < 26 THEN 65 + i
    ELSE IF i < 52 THEN 71 + i
    ELSE IF i < 62 THEN i - 4
    ELSE IF i = 62 THEN 43 ELSE 47

\* base64.encodebytes(b) for fewer than 58 bytes: the groups of three bytes as
\* four characters, the last group padded with "=", and a final newline.
RECURSIVE B64Groups(_)
B64Groups(b) ==
    IF Len(b) = 0 THEN <<>>
    ELSE IF Len(b) = 1
    THEN <<B64Char(b[1] \div 4), B64Char((b[1] % 4) * 16), 61, 61>>
    ELSE IF Len(b) = 2
    THEN <<B64Char(b[1] \div 4), B64Char((b[1] % 4) * 16 + b[2] \div 16),
           B64Char((b[2] % 16) * 4), 61>>
    ELSE <<B64Char(b[1] \div 4), B64Char((b[1] % 4) * 16 + b[2] \div 16),
           B64Char((b[2] % 16) * 4 + b[3] \div 64), B64Char(b[3] % 64)>>
         \o B64Groups(SubSeq(b, 4, Len(b)))
EncodeBytes(b) == IF Len(b) = 0 THEN <<>> ELSE B64Groups(b) \o <<10>>

\* re.sub("[\r\n]", "", s)
StripNewlines(s) == SelectSeq(s, LAMBDA c : c \notin {10, 13})

\* decode_byte_string(data): "" for no data, else the base64 text of the bytes
\* without its newlines (base64.encodebytes raises no ValueError on bytes).
DecodeByteString(b) ==
    IF Len(b) = 0 THEN <<>> ELSE StripNewlines(EncodeBytes(b))

\* encode_byte_string(data): the base64 bytes of the text, without newlines.
EncodeByteString(t) == StripNewlines(EncodeBytes(t))

\* set_udsk(udsk): the bytes written to the UDSK characteristic.
SetUdsk == Applied("set_udsk", EncodeByteString(call.arg))

\* get_udsk() on the characteristic as set_udsk left it (never twenty zero
\* bytes, which get_udsk reports as None).
GetUdsk ==
    /\ call.f = "set_udsk" /\ call.done
    /\ call' = [call EXCEPT !.f = "get_udsk", !.out = DecodeByteString(call.out)]
    /\ UNCHANGED <<wire, temp, target, stage>>
    /\ CodecUnchanged

UdskInit == ApplyInit("set_udsk", Texts)
UdskNext == SetUdsk \/ GetUdsk
UdskSpec == UdskInit /\ [][UdskNext]_vars

(* ------------------- callbacks that act on the registry ---------------- *)

\* The calls one callback makes on the session while it runs, at most
\* MaxCalls of them: register_callback(cb), or the unregister handle of cb.
MaxCalls == 2
RegistryCalls == [f : {"register", "unregister"}, cb : Callbacks]
Behaviours == UNION {[1..n -> RegistryCalls] : n \in 0..MaxCalls}

\* self._callbacks, a dict, as the sequence of its entries in insertion order.
\* `del` leaves the slot of the entry behind, empty.
Deleted == ""
Registries ==
    {s \in UNION {[1..n -> Callbacks] : n \in 0..Cardinality(Callbacks)} :
        \A i, j \in 1..Len(s) : s[i] = s[j] => i = j}

\* The keys of the dict.
Keys(entries) == {entries[i] : i \in 1..Len(entries)} \ {Deleted}

\* register_callback(cb) and unregister_callback() of cb, on the dict.
RegistryCall(entries, c) ==
    IF c.f = "register"
    THEN IF c.cb \in Keys(entries) THEN entries ELSE Append(entries, c.cb)
    ELSE [i \in 1..Len(entries) |-> IF entries[i] = c.cb THEN Deleted ELSE entries[i]]

\* The dict after a callback made its calls.
RECURSIVE RunCallback(_, _)
RunCallback(entries, calls) ==
    IF calls = <<>> THEN entries
    ELSE RunCallback(RegistryCall(entries, Head(calls)), Tail(calls))

\* `for callback in self._callbacks: callback(self.data)`: the dict iterator
\* keeps the size the dict had and the number of keys it has yet to yield.
\* Before each key it raises RuntimeError if the size changed; it skips the
\* empty slots, stops at the end of the entries, and raises RuntimeError if it
\* finds a key after it yielded as many as the dict had.
RECURSIVE Iterate(_, _, _, _, _, _)
Iterate(entries, does, pos, size, left, called) ==
    LET rest == {i \in pos..Len(entries) : entries[i] # Deleted}
    IN IF Cardinality(Keys(entries)) # size
       THEN [called |-> called, raised |-> TRUE, callbacks |-> entries]
       ELSE IF rest = {}
       THEN [called |-> called, raised |-> FALSE, callbacks |-> entries]
       ELSE IF left = 0
       THEN [called |-> called, raised |-> TRUE, callbacks |-> entries]
       ELSE LET i == CHOOSE i \in rest : \A j \in rest : i <= j
                cb == entries[i]
            IN Iterate(RunCallback(entries, does[cb]), does, i + 1, size,
                       left - 1, Append(called, cb))

\* _fire_callbacks() on a registry whose callbacks behave as `does` says: the
\* callbacks invoked, in order, and whether the loop raised.
Dispatch(registry, does) ==
    Iterate(registry, does, 1, Len(registry), Len(registry), <<>>)

\* _fire_callbacks() is called.
FireCallbacksActing ==
    Applied("_fire_callbacks", Dispatch(call.arg.callbacks, call.arg.does))

DispatchInit ==
    ApplyInit("_fire_callbacks",
              [callbacks : Registries, does : [Callbacks -> Behaviours]])
DispatchSpec == DispatchInit /\ [][FireCallbacksActing]_vars

(* ---------------------------- advertisements --------------------------- *)

\* consts.EMBER_BLE_SIG, and the company id of some other manufacturer.
EMBER_BLE_SIG == 961
OtherSig == EMBER_BLE_SIG + 1

\* The service UUIDs a device advertises.
STANDARD_SERVICE == "fc543622-236c-4c94-8fa9-944a3e5353fa"
TRAVEL_MUG_SERVICE == "fc543621-236c-4c94-8fa9-944a3e5353fa"
TRAVEL_MUG_SERVICE_OTHER == "fc5421a1-236c-4c94-8fa9-944a3e5353fa"
TRAVEL_MUG_SERVICE_UUIDS == {TRAVEL_MUG_SERVICE, TRAVEL_MUG_SERVICE_OTHER}

\* The longest manufacturer payload tried, and the bytes it is made of.
MaxPayloadLength == 4
PayloadBytes == {0, 1, 2, 3, 9, 14, 129, 196}
Payloads == UNION {[1..n -> PayloadBytes] : n \in 0..MaxPayloadLength}

\* AdvertisementData.manufacturer_data: a dict from company id to payload.
ManufacturerData ==
    {<<>>} \cup {(EMBER_BLE_SIG :> p) : p \in Payloads}
           \cup {(OtherSig :> <<1>>)}

\* AdvertisementData.local_name, a sequence of characters; the empty sequence
\* also stands for None, `not name` being all the code asks of either.
LocalNames ==
    { <<>>,
      <<"M", "u", "g">>,
      <<"c", "u", "p">>,
      <<"E", " ", "C", "u", "p">>,
      <<"T", "r", "a", "v", "e", "l">>,
      <<"T", "r", "a", "v", "e", "l", " ", "C", "u", "p">> }

Advertisements ==
    [manufacturer_data : ManufacturerData,
     service_uuids : {{STANDARD_SERVICE}, {TRAVEL_MUG_SERVICE},
                      {STANDARD_SERVICE, TRAVEL_MUG_SERVICE_OTHER}},
     local_name : LocalNames]

\* bytes_to_big_int(data, signed): int.from_bytes(data, "big", signed=signed)
RECURSIVE BigUnsigned(_)
BigUnsigned(b) ==
    IF b = <<>> THEN 0
    ELSE 256 * BigUnsigned(SubSeq(b, 1, Len(b) - 1)) + b[Len(b)]

BytesToBigInt(b, signed) ==
    LET u == BigUnsigned(b)
    IN IF signed /\ Len(b) > 0 /\ b[1] >= 128 THEN u - 256 ^ Len(b) ELSE u

\* `word in name`
Contains(name, word) ==
    \E i \in 1..(Len(name) - Len(word) + 1) :
        SubSeq(name, i, i + Len(word) - 1) = word

\* get_colour_from_int
GetColourFromInt(colour_id) ==
    IF colour_id \in {-127, -63, 1, 14, 65} THEN "Black"
    ELSE IF colour_id \in {-126, -62, 2} THEN "White"
    ELSE IF colour_id \in {8, 11, -56, -63, -120, -117, -53} THEN "Red"
    ELSE IF colour_id \in {-131, -125, -61, 3, 83} THEN "Copper"
    ELSE IF colour_id \in {-124, -60} THEN "Rose Gold"
    ELSE IF colour_id \in {-59, -123} THEN "Stainless Steel"
    ELSE IF colour_id = -51 THEN "Sandstone"
    ELSE IF colour_id = -52 THEN "Sage Green"
    ELSE IF colour_id = -55 THEN "Grey"
    ELSE IF colour_id = -57 THEN "Blue"
    ELSE IF colour_id = -122 THEN "Gold"
    ELSE NoColour

\* A mutation of GetModelFromSingleIntAndServices: the advertised services
\* are not looked at.
GetModelFromSingleIntOnly(model_id, service_uuids) ==
    IF model_id \in {1, 2, 3} THEN MUG_1_10_OZ
    ELSE IF model_id = 65 THEN MUG_1_14_OZ
    ELSE IF model_id \in {-51, -59, -63, -61, -62} THEN MUG_2_14_OZ
    ELSE IF model_id = -60 THEN CUP_6_OZ
    ELSE IF model_id \in {-127, -126, -125, -124, -123, -122, -120, -117,
                          -57, -56, -55, -53, -52, 83, 131} THEN MUG_2_10_OZ
    ELSE NoModel

\* get_model_from_single_int_and_services
GetModelFromSingleIntAndServices(model_id, service_uuids) ==
    IF TRAVEL_MUG_SERVICE_UUIDS \cap service_uuids # {} THEN TRAVEL_MUG_12_OZ
    ELSE IF model_id \in {1, 2, 3} THEN MUG_1_10_OZ
    ELSE IF model_id = 65 THEN MUG_1_14_OZ
    ELSE IF model_id \in {-51, -59, -63, -61, -62} THEN MUG_2_14_OZ
    ELSE IF model_id = -60 THEN CUP_6_OZ
    ELSE IF model_id \in {-127, -126, -125, -124, -123, -122, -120, -117,
                          -57, -56, -55, -53, -52, 83, 131} THEN MUG_2_10_OZ
    ELSE NoModel

\* get_model_from_id_and_gen
GetModelFromIdAndGen(model_id, generation) ==
    IF model_id = 1 THEN (IF generation < 2 THEN MUG_1_10_OZ ELSE MUG_2_10_OZ)
    ELSE IF model_id = 2 THEN (IF generation < 2 THEN MUG_1_14_OZ ELSE MUG_2_14_OZ)
    ELSE IF model_id = 3 THEN TRAVEL_MUG_12_OZ
    ELSE IF model_id = 8 THEN CUP_6_OZ
    ELSE IF model_id = 9 THEN TUMBLER_16_OZ
    ELSE NoModel

\* guess_model_from_name
GuessModelFromName(name) ==
    IF name = <<>> THEN NoModel
    ELSE IF Contains(name, <<"T", "r", "a", "v", "e", "l">>) THEN TRAVEL_MUG_12_OZ
    ELSE IF Contains(name, <<"C", "u", "p">>) THEN CUP_6_OZ
    ELSE UNKNOWN_DEVICE

\* ModelInfo(model, colour)
ModelInfo(m, c) == [model |-> m, colour |-> c]

\* get_model_info_from_advertiser_data
GetModelInfoFromAdvertiserData(advertisement) ==
    LET md == advertisement.manufacturer_data
    IN IF EMBER_BLE_SIG \in DOMAIN md
       THEN LET model_data == md[EMBER_BLE_SIG]
            IN IF Len(model_data) < 4
               THEN LET model_id == BytesToBigInt(model_data, TRUE)
                    IN ModelInfo(GetModelFromSingleIntAndServices(
                                     model_id, advertisement.service_uuids),
                                 GetColourFromInt(model_id))
               ELSE ModelInfo(GetModelFromIdAndGen(model_data[2], model_data[3]),
                              GetColourFromInt(model_data[4]))
       ELSE ModelInfo(GuessModelFromName(advertisement.local_name), NoColour)

\* get_model_info_from_advertiser_data(advertisement) is called.
ResolveAdvertisement ==
    Applied("get_model_info_from_advertiser_data",
            GetModelInfoFromAdvertiserData(call.arg))

AdvertisementInit == ApplyInit("get_model_info_from_advertiser_data", Advertisements)
AdvertisementSpec == AdvertisementInit /\ [][ResolveAdvertisement]_vars

(* --------------------------- temperature units ------------------------- *)

\* convert_temp_to_fahrenheit and convert_temp_to_celsius, in whole degrees:
\* exact on the temperatures the device holds here (multiples of 5 degrees
\* Celsius and their Fahrenheit values), rounded down on any other.
ConvertTempToFahrenheit(t) == (t * 9) \div 5 + 32
ConvertTempToCelsius(t) == ((t - 32) * 5) \div 9

\* The unit the user prefers: Celsius if use_metric.
PreferredUnit == IF useMetric THEN CELSIUS ELSE FAHRENHEIT

\* _convert_to_device_unit(value), which goes by the unit MugData holds.
ConvertToDeviceUnit(value) ==
    IF useMetric /\ data["temperature_unit"] # CELSIUS
    THEN ConvertTempToFahrenheit(value)
    ELSE IF ~useMetric /\ data["temperature_unit"] # FAHRENHEIT
    THEN ConvertTempToCelsius(value)
    ELSE value

\* _convert_to_user_unit(value), which goes by the unit MugData holds.
ConvertToUserUnit(value) ==
    IF useMetric /\ data["temperature_unit"] # CELSIUS
    THEN ConvertTempToCelsius(value)
    ELSE IF ~useMetric /\ data["temperature_unit"] # FAHRENHEIT
    THEN ConvertTempToFahrenheit(value)
    ELSE value

\* A temperature v given in unit `from`, in unit `to`.
Express(v, from, to) ==
    IF from = to THEN v
    ELSE IF to = FAHRENHEIT THEN ConvertTempToFahrenheit(v)
    ELSE ConvertTempToCelsius(v)

\* The temperatures the device may hold, in Celsius, and the arguments of
\* set_target_temp, which are in the preferred unit.
DeviceTemps == {50, 55, 60}
TargetArgs == {Express(c, CELSIUS, PreferredUnit) : c \in DeviceTemps}

\* A constructed session, metric or not, and a device set to either unit that
\* reports its two temperatures in that unit.
UnitInit ==
    /\ SessionInit
    /\ debug = FALSE
    /\ CodecIdle
    /\ \E metric \in BOOLEAN : Constructed(MUG_2_10_OZ, metric)
    /\ kwargs = <<>>
    /\ data = [a \in Attrs |->
                 IF a \in {"target_temp", "current_temp"} THEN 0
                 ELSE FieldDefault(a)]
    /\ \E u \in {CELSIUS, FAHRENHEIT}, tt \in DeviceTemps, ct \in DeviceTemps :
          dev = [a \in Attrs |->
                   CASE a = "temperature_unit" -> u
                     [] a = "target_temp" -> Express(tt, CELSIUS, u)
                     [] a = "current_temp" -> Express(ct, CELSIUS, u)
                     [] OTHER -> DeviceDefault(a)]

\* What a step on the temperatures leaves alone.
UnitUnchanged ==
    /\ UNCHANGED <<queue, latest, now, callbacks, handles, taken, late, events, event,
                   drains, api, used, pureVars, infoVars, wire, temp, target, stage>>
    /\ UNCHANGED <<opLock, pc, outcome, cl, res, todo, vals, ensured, estab, via>>
    /\ UNCHANGED connVars
    /\ UNCHANGED <<debug, op>>

\* update_all() on a connected session with no other task running, as far as
\* the temperatures go: get_current_temp, get_target_temp and
\* get_temperature_unit return, then update_info stores what they returned
\* and _fire_callbacks runs if anything changed.
UpdateAllTemps ==
    /\ opsStarted < MaxOps
    /\ opsStarted' = opsStarted + 1
    /\ LET kv == << <<"current_temp", ConvertToUserUnit(dev["current_temp"])>>,
                    <<"target_temp", ConvertToUserUnit(dev["target_temp"])>>,
                    <<"temperature_unit", dev["temperature_unit"]>> >>
           r == UpdateInfo(data, kv, <<>>)
       IN /\ data' = r.data
          /\ call' = [f |-> "update_all", arg |-> kv, out |-> r.changes, done |-> TRUE]
          /\ IF r.changes # <<>> THEN FireCallbacks ELSE UNCHANGED <<fires, invoked>>
    /\ UNCHANGED dev
    /\ UnitUnchanged

\* set_target_temp(x) on a connected session, the write succeeding: the
\* converted value is written, and the converted value is stored.
SetTargetTemp(x) ==
    /\ opsStarted < MaxOps
    /\ InRange(x)
    /\ opsStarted' = opsStarted + 1
    /\ LET target_temp == ConvertToDeviceUnit(x)
       IN /\ dev' = [dev EXCEPT !["target_temp"] = target_temp]
          /\ data' = [data EXCEPT !["target_temp"] = target_temp]
          /\ call' = [f |-> "set_target_temp", arg |-> x, out |-> target_temp,
                      done |-> TRUE]
    /\ UNCHANGED <<fires, invoked>>
    /\ UnitUnchanged

\* The unit of the device is changed from outside the session (the vendor's
\* app): it reports its temperatures in the new unit from then on.
DeviceUnitChanged(u) ==
    /\ u # dev["temperature_unit"]
    /\ dev' = [dev EXCEPT
                 !["temperature_unit"] = u,
                 !["target_temp"] = Express(@, dev["temperature_unit"], u),
                 !["current_temp"] = Express(@, dev["temperature_unit"], u)]
    /\ UNCHANGED <<data, fires, invoked, opsStarted, call>>
    /\ UnitUnchanged

UnitNext ==
    \/ UpdateAllTemps
    \/ \E x \in TargetArgs : SetTargetTemp(x)
    \/ \E u \in {CELSIUS, FAHRENHEIT} : DeviceUnitChanged(u)

UnitSpec == UnitInit /\ [][UnitNext]_vars

(* ------------------------------ model info ---------------------------- *)

\* The advertisements a session is shown: with and without manufacturer data,
\* of Ember or of somebody else, with and without a name.
SeenPayloads == {<<>>, <<0>>, <<1>>, <<129>>, <<196>>, <<0, 1, 1, 14>>,
                 <<0, 2, 1, 1>>, <<0, 2, 2, 0>>, <<0, 9, 3, 14>>}
SeenAdvertisements ==
    [manufacturer_data : {<<>>, (OtherSig :> <<1>>)}
                             \cup {(EMBER_BLE_SIG :> p) : p \in SeenPayloads},
     service_uuids : {{STANDARD_SERVICE}, {TRAVEL_MUG_SERVICE}},
     local_name : {<<>>, <<"M", "u", "g">>}]

\* The test of ble_event_callback: the session has no model and the
\* advertisement has manufacturer data, of whomever (the ModelInfo resolved
\* from it is an object without __bool__ or __len__, hence true).
ModelInfoReplaced(advertisement) ==
    /\ model = NoModel
    /\ advertisement.manufacturer_data # <<>>

\* ble_event_callback(ble_device, advertisement_data): the device is replaced
\* and, if the test passes, so is model_info, by a new ModelInfo whose
\* device_attributes were not computed yet.  EmberMug.model_name, cached on
\* the session, is not touched.
BleEventCallback(ble_device, advertisement) ==
    /\ device' = ble_device
    /\ IF ModelInfoReplaced(advertisement)
       THEN LET model_info == GetModelInfoFromAdvertiserData(advertisement)
            IN /\ model' = model_info.model
               /\ modelColour' = model_info.colour
               /\ deviceAttributes' = DeviceAttributes(model_info.model)
       ELSE UNCHANGED <<model, modelColour, deviceAttributes>>
    /\ UNCHANGED <<useMetric, snapshot, modelName>>
    /\ UNCHANGED <<queue, latest, now, callbacks, handles, taken, late, events, event,
                   drains, api, used, pureVars, codecVars>>
    /\ UNCHANGED connVars
    /\ UNCHANGED tailVars
    /\ UNCHANGED <<debug, op, dev, opsStarted>>

\* functools.cached_property on model_name: the value computed at the first
\* use (the model's value, or None) is what every later use returns.
CachedModelName(cached) == IF cached = NotCached THEN model ELSE cached

\* EmberMug.model_name is read and its value kept.
ModelName ==
    /\ modelName' = CachedModelName(modelName)
    /\ snapshot' = [f |-> "model_name", attrs |-> {CachedModelName(modelName)}]
    /\ UNCHANGED <<model, deviceAttributes, useMetric, device, modelColour>>
    /\ UNCHANGED <<queue, latest, now, callbacks, handles, taken, late, events, event,
                   drains, api, used, pureVars, codecVars>>
    /\ UNCHANGED connVars
    /\ UNCHANGED tailVars
    /\ UNCHANGED <<debug, op, dev, opsStarted>>

\* has_attribute(a) is called and its answer kept.
AskAttribute(a) ==
    /\ snapshot' = [f |-> "has_attribute",
                    attrs |-> IF HasAttribute(a) THEN {a} ELSE {}]
    /\ UNCHANGED <<model, deviceAttributes, useMetric, device, modelColour, modelName>>
    /\ UNCHANGED <<queue, latest, now, callbacks, handles, taken, late, events, event,
                   drains, api, used, pureVars, codecVars>>
    /\ UNCHANGED connVars
    /\ UNCHANGED tailVars
    /\ UNCHANGED <<debug, op, dev, opsStarted>>

\* A mutation of AsDictAttributes: as_dict works on a copy of the set.
AsDictCopies(attrs) == attrs

\* What as_dict leaves in the set device_attributes returned: `all_attrs` is
\* that very set, and `all_attrs -= EXTRA_ATTRS` (when not debug) updates it
\* in place.
AsDictAttributes(attrs) == IF debug THEN attrs ELSE attrs \ EXTRA_ATTRS

\* MugData.as_dict(): the slots, and the display value of each attribute of
\* all_attrs that has a <attr>_display property.
DisplayAttrs == {"meta", "led_colour", "liquid_state", "volume_level",
                 "liquid_level", "current_temp", "target_temp"}
AsDict ==
    /\ deviceAttributes' = AsDictAttributes(deviceAttributes)
    /\ snapshot' = [f |-> "as_dict",
                    attrs |-> (IF debug THEN deviceAttributes
                               ELSE deviceAttributes \ EXTRA_ATTRS) \cap DisplayAttrs]
    /\ UNCHANGED <<model, useMetric, device, modelColour, modelName>>
    /\ UNCHANGED <<queue, latest, now, callbacks, handles, taken, late, events, event,
                   drains, api, used, pureVars, codecVars>>
    /\ UNCHANGED connVars
    /\ UNCHANGED tailVars
    /\ UNCHANGED <<debug, op, dev, opsStarted>>

\* MugData.formatted: the labelled attributes of device_attributes | {"use_metric"},
\* less EXTRA_ATTRS when not debug; the union is a new set.
Formatted ==
    /\ snapshot' = [f |-> "formatted",
                    attrs |-> LET all == deviceAttributes \cup {"use_metric"}
                              IN (IF debug THEN all ELSE all \ EXTRA_ATTRS)
                                    \cap ATTR_LABELS]
    /\ UNCHANGED <<model, deviceAttributes, useMetric, device, modelColour, modelName>>
    /\ UNCHANGED <<queue, latest, now, callbacks, handles, taken, late, events, event,
                   drains, api, used, pureVars, codecVars>>
    /\ UNCHANGED connVars
    /\ UNCHANGED tailVars
    /\ UNCHANGED <<debug, op, dev, opsStarted>>

(* ----------------------------- environment ----------------------------- *)

\* A mutation of DisconnectCallback: the callback clears the handle.
DisconnectCallbackClears(h) == NoClient

\* _disconnect_callback(client) logs one of two messages, chosen by
\* _expected_disconnect, and assigns nothing: the handle stays h.
DisconnectCallback(h) == h

\* The link to transport c is lost: is_connected turns False, the
\* subscription goes with it, and _disconnect_callback only logs.  Transports
\* that neither the handle nor a pending call refers to are left out: nothing
\* observes their link.
Drop(c) ==
    /\ c \in connected
    /\ c = client \/ \E t \in Tasks : cl[t] = c
    /\ connected' = connected \ {c}
    /\ subscribed' = subscribed \ {c}
    /\ client' = DisconnectCallback(client)
    /\ UNCHANGED <<startNotify, nextClient, connectLock, expectedDisconnect>>
    /\ UNCHANGED tailVars
    /\ UNCHANGED <<debug, op, dev, opsStarted, pipeVars>>

(* ---------------------------- specification ---------------------------- *)

\* The session engine without the refresh: connection(), disconnect(), single
\* getters and setters, and the awaits they go through.
SessionNext ==
    \/ \E t \in Tasks : StartConnect(t)
    \/ \E t \in Tasks, x \in BOOLEAN : StartDisconnect(t, x)
    \/ \E t \in Tasks, a \in GetAttrs : StartGet(t, a)
    \/ \E t \in Tasks, a \in SetAttrs, v \in SetValues : StartSet(t, a, v)
    \/ \E t \in Tasks : EcAcquired(t)
    \/ \E t \in Tasks : EstablishOk(t)
    \/ \E t \in Tasks : EstablishFail(t)
    \/ \E t \in Tasks : DiscoverOk(t)
    \/ \E t \in Tasks : DiscoverFail(t)
    \/ \E t \in Tasks, r \in PairResults : Paired(t, r)
    \/ \E t \in Tasks : SubscribeOk(t)
    \/ \E t \in Tasks : SubscribeFail(t)
    \/ \E t \in Tasks : SubscribeStatsDone(t)
    \/ \E t \in Tasks : DcAcquired(t)
    \/ \E t \in Tasks : UnsubscribeOk(t)
    \/ \E t \in Tasks : UnsubscribeFail(t)
    \/ \E t \in Tasks : UnsubscribeStatsDone(t)
    \/ \E t \in Tasks : CloseOk(t)
    \/ \E t \in Tasks : CloseFail(t)
    \/ \E t \in Tasks : WrAcquired(t)
    \/ \E t \in Tasks : RdAcquired(t)
    \/ \E t \in Tasks : ReadOk(t)
    \/ \E t \in Tasks : ReadFail(t)
    \/ \E t \in Tasks, ok \in BOOLEAN : WriteDone(t, ok)
    \/ \E c \in 1..MaxClients : Drop(c)

SessionSpec == Init /\ [][SessionNext]_vars

\* The engine with update_initial() as well.
Next ==
    \/ SessionNext
    \/ \E t \in Tasks : StartUpdateInitial(t)

Spec == Init /\ [][Next]_vars

\* The steps by which the pending operation of task t goes on: a lock it waits
\* for is granted to it, or the transport call it awaits returns or raises.
Proceeds(t) ==
    \/ EcAcquired(t) \/ DcAcquired(t) \/ WrAcquired(t) \/ RdAcquired(t)
    \/ EstablishOk(t) \/ EstablishFail(t)
    \/ DiscoverOk(t) \/ DiscoverFail(t)
    \/ \E r \in PairResults : Paired(t, r)
    \/ SubscribeOk(t) \/ SubscribeFail(t) \/ SubscribeStatsDone(t)
    \/ UnsubscribeOk(t) \/ UnsubscribeFail(t) \/ UnsubscribeStatsDone(t)
    \/ CloseOk(t) \/ CloseFail(t)
    \/ ReadOk(t) \/ ReadFail(t)
    \/ \E ok \in BOOLEAN : WriteDone(t, ok)

\* The engine under the scheduling of asyncio: the event loop resumes every
\* task whose awaited future is done, a released asyncio.Lock wakes its first
\* waiter, and the transport answers every call, with a result or an error.
FairSpec == Init /\ [][Next]_vars /\ \A t \in Tasks : WF_vars(Proceeds(t))

\* The steps of _ensure_connection, and the loss of the link.
EnsureNext ==
    \/ \E t \in Tasks : EcAcquired(t)
    \/ \E t \in Tasks : EstablishOk(t)
    \/ \E t \in Tasks : EstablishFail(t)
    \/ \E t \in Tasks : DiscoverOk(t)
    \/ \E t \in Tasks : DiscoverFail(t)
    \/ \E t \in Tasks, r \in PairResults : Paired(t, r)
    \/ \E t \in Tasks : SubscribeOk(t)
    \/ \E t \in Tasks : SubscribeFail(t)
    \/ \E t \in Tasks : SubscribeStatsDone(t)
    \/ \E c \in 1..MaxClients : Drop(c)

\* _notify_callback called with either characteristic and every event code,
\* as time passes.
NotifyNext ==
    \/ \E ch \in Channels, code \in Codes : Notify(ch, code)
    \/ Tick

NotifySpec == Init /\ [][NotifyNext]_vars

\* The callback registry, and the dispatches of _notify_callback.
RegistryNext ==
    \/ \E cb \in Callbacks : Register(cb)
    \/ \E h \in 1..MaxHandles : Unregister(h)
    \/ \E code \in Codes : Notify("push", code)

RegistrySpec == Init /\ [][RegistryNext]_vars

\* MugData.update_info on its own.
UpdateInfoNext == ApplyUpdateInfo

UpdateInfoSpec == UpdateInfoInit /\ [][UpdateInfoNext]_vars

\* The steps of _read.
ReadNext ==
    \/ \E t \in Tasks : RdAcquired(t)
    \/ \E t \in Tasks : ReadOk(t)
    \/ \E t \in Tasks : ReadFail(t)

\* update_initial() alone.
InitialNext ==
    \/ \E t \in Tasks : StartUpdateInitial(t)
    \/ EnsureNext
    \/ ReadNext

InitialSpec == Init /\ [][InitialNext]_vars

\* connection() and update_queued_attributes(), fed by the notifications the
\* transport delivers.
QueuedNext ==
    \/ \E t \in Tasks : StartConnect(t)
    \/ \E t \in Tasks : StartUpdateQueued(t)
    \/ EnsureNext
    \/ ReadNext
    \/ \E code \in QueuedCodes : Deliver(code)

QueuedSpec == Init /\ [][QueuedNext]_vars

\* connection() and update_queued_attributes(), fed by the notifications the
\* transport delivers as time passes.
DebounceNext ==
    \/ \E t \in Tasks : StartConnect(t)
    \/ \E t \in Tasks : StartUpdateQueued(t)
    \/ EnsureNext
    \/ ReadNext
    \/ \E code \in QueuedCodes : Deliver(code)
    \/ Tick

DebounceSpec == Init /\ [][DebounceNext]_vars

\* connection(), update_queued_attributes() and the battery notifications, with
\* a registered callback.
ChargerNext ==
    \/ \E t \in Tasks : StartConnect(t)
    \/ \E t \in Tasks : StartUpdateQueued(t)
    \/ EnsureNext
    \/ ReadNext
    \/ \E code \in PUSH_EVENT_BATTERY_IDS : Deliver(code)
    \/ \E cb \in RefreshCallbacks : Register(cb)

ChargerSpec == Init /\ [][ChargerNext]_vars

\* Both refreshes, with a registered callback.
RefreshNext ==
    \/ \E t \in Tasks : StartUpdateInitial(t)
    \/ \E t \in Tasks : StartUpdateQueued(t)
    \/ EnsureNext
    \/ ReadNext
    \/ \E code \in RefreshCodes : Deliver(code)
    \/ \E cb \in RefreshCallbacks : Register(cb)

RefreshSpec == Init /\ [][RefreshNext]_vars

\* The attributes that some model lacks.
OptionalAttrs == {"name", "led_colour", "volume_level", "battery_voltage"}

\* The sessions of AttributeSpec: a mug, the travel mug, the cup and a session
\* without a model, metric or imperial.
AttributeModels == {MUG_2_10_OZ, TRAVEL_MUG_12_OZ, CUP_6_OZ, NoModel}

AttributeInit ==
    /\ EngineInit
    /\ CodecIdle
    /\ \E m \in AttributeModels, metric \in BOOLEAN : Constructed(m, metric)
    /\ data = [a \in Attrs |-> FieldDefault(a)]
    /\ kwargs = <<>>

\* The steps of _write.
WriteNext ==
    \/ \E t \in Tasks : WrAcquired(t)
    \/ \E t \in Tasks, ok \in BOOLEAN : WriteDone(t, ok)

\* The getters of the optional attributes and the setters that check their
\* argument, on sessions of several models.
AttributeNext ==
    \/ \E t \in Tasks : StartConnect(t)
    \/ \E t \in Tasks, a \in OptionalAttrs : StartGet(t, a)
    \/ \E t \in Tasks, x \in NameArgs : StartSet(t, "name", x)
    \/ \E t \in Tasks, x \in TempArgs : StartSet(t, "target_temp", x)
    \/ \E t \in Tasks, x \in VolumeArgs : StartSet(t, "volume_level", x)
    \/ \E t \in Tasks, x \in UnitArgs : StartSet(t, "temperature_unit", x)
    \/ EnsureNext
    \/ ReadNext
    \/ WriteNext

AttributeSpec == AttributeInit /\ [][AttributeNext]_vars

\* A session of any model, metric or imperial.
ModelInfoInit ==
    /\ EngineInit
    /\ CodecIdle
    /\ \E m \in Models, metric \in BOOLEAN : Constructed(m, metric)
    /\ data = [a \in Attrs |-> FieldDefault(a)]
    /\ kwargs = <<>>

\* ModelInfo on its own: the model, and the attributes it gives.
ModelInfoNext ==
    \/ \E d \in Devices, adv \in SeenAdvertisements : BleEventCallback(d, adv)
    \/ \E a \in Attrs : AskAttribute(a)
    \/ ModelName

ModelInfoSpec == ModelInfoInit /\ [][ModelInfoNext]_vars

\* The sessions of FullRefreshSpec: a mug and the travel mug.
FullRefreshModels == {MUG_2_10_OZ, TRAVEL_MUG_12_OZ}

FullRefreshInit ==
    /\ EngineInit
    /\ CodecIdle
    /\ \E m \in FullRefreshModels : Constructed(m, TRUE)
    /\ data = [a \in Attrs |-> FieldDefault(a)]
    /\ kwargs = <<>>

\* update_initial() and update_all(), and the snapshots of MugData taken
\* between their steps.
FullRefreshNext ==
    \/ \E t \in Tasks : StartUpdateInitial(t)
    \/ \E t \in Tasks : StartUpdateAll(t)
    \/ AsDict
    \/ Formatted
    \/ EnsureNext
    \/ ReadNext

FullRefreshSpec == FullRefreshInit /\ [][FullRefreshNext]_vars

\* The steps of disconnect().
DisconnectNext ==
    \/ \E t \in Tasks : DcAcquired(t)
    \/ \E t \in Tasks : UnsubscribeOk(t)
    \/ \E t \in Tasks : UnsubscribeFail(t)
    \/ \E t \in Tasks : UnsubscribeStatsDone(t)
    \/ \E t \in Tasks : CloseOk(t)
    \/ \E t \in Tasks : CloseFail(t)

\* The life of the handle: connection() as a context manager, a bare
\* _ensure_connection, disconnect(), and the loss of the link.
LifecycleNext ==
    \/ \E t \in Tasks : EnterConnection(t)
    \/ \E t \in Tasks, raises \in BOOLEAN : ExitConnection(t, raises)
    \/ \E t \in Tasks : StartConnect(t)
    \/ \E t \in Tasks, x \in BOOLEAN : StartDisconnect(t, x)
    \/ EnsureNext
    \/ DisconnectNext

LifecycleSpec == Init /\ [][LifecycleNext]_vars

\* update_all() and set_target_temp() by concurrent tasks.
OverlapNext ==
    \/ \E t \in Tasks : StartUpdateAll(t)
    \/ \E t \in Tasks, x \in SetValues : StartSet(t, "target_temp", x)
    \/ EnsureNext
    \/ ReadNext
    \/ WriteNext

OverlapSpec == Init /\ [][OverlapNext]_vars

(* ------------------------------ properties ----------------------------- *)

\* Task t is suspended in a read_gatt_char / write_gatt_char issued by _read / _write.
IoPcs == {"rd_io", "wr_io"}

\* Task t is inside the `async with self._connect_lock` block of _ensure_connection.
EcActive == {"ec_establish", "ec_discover", "ec_pair", "ec_subscribe",
             "ec_subscribe_stats"}

\* Task t is inside _ensure_connection (waiting for the lock included).
EcPcs == EcActive \cup {"ec_wait"}

\* _ensure_connection returned normally after establishing a transport.
Established == {"established", "unsubscribed"}

\* The step starts a public operation of task t.
Starts(t) == op'[t].n # op[t].n

\* The step is taken by task t.
StepOf(t) == Starts(t) \/ pc'[t] # pc[t]

\* C1: at any instant at most one attribute transport call (read_gatt_char or
\* write_gatt_char issued through _read / _write) is in flight, and the task
\* whose call is in flight holds the operation lock: no second call starts
\* before the first has released it.
C1_OneCallInFlight ==
    \A t \in Tasks :
        pc[t] \in IoPcs =>
            /\ opLock.owner = t
            /\ \A u \in Tasks \ {t} : pc[u] \notin IoPcs

\* A transport call is in flight while another operation waits for the lock.
C1_Witness ==
    \E t, u \in Tasks : pc[t] \in IoPcs /\ pc[u] \in {"rd_wait", "wr_wait"}

\* C2: _ensure_connection is a no-op when the handle is connected (the caller
\* goes on at once, nothing of the connection changes); a caller that is granted
\* the connection lock while the handle is connected returns without
\* establish_connection, pair or subscribe; and only the holder of the
\* connection lock establishes, so at most one transport is being established.
C2_EnsureConnectionOnce ==
    [][\A t \in Tasks :
          /\ (IsConnected /\ pc[t] \notin EcPcs) => pc'[t] \notin EcPcs
          /\ ((Starts(t) \/ via[t] = "") /\ via'[t] = "connected") =>
                 /\ IsConnected
                 /\ UNCHANGED <<client, nextClient, startNotify, connectLock>>
          /\ (pc[t] = "ec_wait" /\ pc'[t] # "ec_wait" /\ IsConnected) =>
                 /\ via'[t] = "rechecked"
                 /\ pc'[t] \notin EcPcs
                 /\ connectLock'.owner = NoTask
                 /\ UNCHANGED <<client, nextClient, startNotify>>
          /\ pc'[t] \in EcActive => connectLock'.owner = t
          /\ (pc[t] = "ec_establish" /\ nextClient' # nextClient) =>
                 connectLock.owner = t
      ]_vars

\* Two callers found the session disconnected; one established the transport,
\* the other then got the lock, found the handle connected and returned.
C2_Witness ==
    \E t, u \in Tasks :
        /\ via[t] = "established" /\ estab[t] = 1
        /\ via[u] = "rechecked" /\ pc[u] = "done" /\ outcome[u] = "ok"
        /\ nextClient = 1 /\ startNotify[1] = 1

\* C3: disconnect never clears the handle while a concurrent _ensure_connection
\* is establishing a transport or assigning the handle, every step of
\* disconnect that touches the handle being made under the connection lock.
C3_DisconnectUnderLock ==
    [][\A t \in Tasks :
          (StepOf(t) /\ op'[t].k = "disconnect" /\ client' # client) =>
              /\ connectLock.owner = t
              /\ \A u \in Tasks \ {t} : pc[u] \notin EcActive
      ]_vars

\* C4: a task whose connect, disconnect, read or write has ended, normally or
\* by raising, holds neither lock and waits for neither.
C4_LocksReleased ==
    \A t \in Tasks :
        pc[t] \in {"idle", "done"} =>
            /\ connectLock.owner # t /\ opLock.owner # t
            /\ \A i \in 1..Len(connectLock.waiters) : connectLock.waiters[i] # t
            /\ \A i \in 1..Len(opLock.waiters) : opLock.waiters[i] # t

\* A write raised inside both critical sections' reach, and the operation that
\* waited behind it has since been granted the operation lock.
C4_Witness ==
    \E t, u \in Tasks :
        /\ pc[t] = "done" /\ outcome[t] = "raised" /\ op[t].k = "set"
        /\ via[t] \in Established
        /\ pc[u] = "wr_io" /\ op[u].n > op[t].n

\* C5: when _ensure_connection returns after establishing a transport, the
\* attributes of INITIAL_ATTRS have been read from the device into MugData:
\* each one whose getter lets a transport error through holds a device value.
C5_InitialRefreshOnConnect ==
    [][\A t \in Tasks :
          (pc[t] \in EcActive /\ via'[t] \in Established) =>
              \A i \in 1..Len(INITIAL_ATTRS) :
                  INITIAL_ATTRS[i] \notin BestEffortAttrs =>
                      data'[INITIAL_ATTRS[i]] \in DeviceValues
      ]_vars

\* C6 as stated: when _ensure_connection returns normally after establishing a
\* transport whose link is still up, the PUSH_EVENT subscription is active on it.
C6_SubscribedOnReturn ==
    [][\A t \in Tasks :
          (pc[t] \in EcActive /\ via'[t] \in Established /\ estab[t] \in connected') =>
              estab[t] \in subscribed'
      ]_vars

\* C6, amended: start_notify(PUSH_EVENT) is requested exactly once on each newly
\* established transport, in the step that assigns the handle, and never when a
\* connected handle is reused; when _ensure_connection returns normally after
\* establishing, the request has been made once, and the subscription is active
\* unless the request raised (subscribe() swallows that) or the link went down.
C6_SubscribeRequestedOnce ==
    [][/\ startNotify' # startNotify =>
            \E t \in Tasks :
                /\ pc[t] = "ec_pair" /\ pc'[t] = "ec_subscribe"
                /\ client' = estab[t]
                /\ startNotify[estab[t]] = 0
                /\ startNotify' = [startNotify EXCEPT ![estab[t]] = 1]
       /\ \A t \in Tasks :
            (pc[t] \in EcActive /\ via'[t] \in Established) =>
                /\ startNotify'[estab[t]] = 1
                /\ (via'[t] = "established" /\ estab[t] \in connected') =>
                       estab[t] \in subscribed'
      ]_vars

\* One operation established transport 1 and returned with the subscription
\* active; another then reused the handle, with no further request.
C6_Witness ==
    \E t, u \in Tasks :
        /\ pc[t] = "done" /\ via[t] = "established" /\ estab[t] = 1
        /\ 1 \in subscribed /\ startNotify[1] = 1
        /\ via[u] = "connected" /\ op[u].n > op[t].n

\* C7: when pair() raises BleakError, EOFError or NotImplementedError, the new
\* handle is assigned and subscribe() is called in the same step, and
\* _ensure_connection does not raise from there on.
C7_PairFailureNonFatal ==
    [][\A t \in Tasks :
          /\ (pc[t] = "ec_pair"
                /\ res'[t] \in {"BleakError", "EOFError", "NotImplementedError"}) =>
                 /\ pc'[t] = "ec_subscribe"
                 /\ client' = estab[t]
                 /\ startNotify'[estab[t]] = startNotify[estab[t]] + 1
                 /\ outcome'[t] # "raised"
          /\ (pc[t] \in {"ec_subscribe", "ec_subscribe_stats"} /\ StepOf(t)) =>
                 via'[t] # "raised"
      ]_vars

\* pair() raised NotImplementedError; the handle is assigned and the
\* subscription request is pending.
C7_Witness ==
    \E t \in Tasks :
        /\ pc[t] = "ec_subscribe" /\ res[t] = "NotImplementedError"
        /\ client = estab[t] /\ startNotify[estab[t]] = 1

\* C8: when establish_connection fails, _ensure_connection raises to its caller
\* at once: the handle, the transports and the subscription requests are as
\* they were, the connection lock is free, and the task is out of
\* _ensure_connection; establish_connection is only ever called on entry.
C8_EstablishFailurePropagates ==
    [][\A t \in Tasks :
          /\ (pc[t] = "ec_establish" /\ StepOf(t) /\ nextClient' = nextClient) =>
                 /\ via'[t] = "raised" /\ outcome'[t] = "raised" /\ pc'[t] = "done"
                 /\ connectLock'.owner = NoTask
                 /\ UNCHANGED <<client, connected, subscribed, startNotify>>
          /\ (StepOf(t) /\ pc'[t] = "ec_establish") =>
                 pc[t] \in {"idle", "done", "ec_wait", "wr_wait"}
      ]_vars

\* An operation ended with the establish error, and a later operation is
\* establishing.
C8_Witness ==
    \E t, u \in Tasks :
        /\ pc[t] = "done" /\ outcome[t] = "raised" /\ via[t] = "raised"
        /\ estab[t] = NoClient /\ res[t] = "" /\ client = NoClient
        /\ pc[u] = "ec_establish" /\ op[u].n > op[t].n

\* C9: a setter is inside _ensure_connection only with the operation lock held,
\* and its write_gatt_char is in flight only after exactly one
\* _ensure_connection call has returned normally in the same critical section.
C9_WriteAfterEnsure ==
    \A t \in Tasks :
        /\ (op[t].k = "set" /\ pc[t] \in EcPcs) =>
               opLock.owner = t /\ ensured[t] = 0
        /\ pc[t] = "wr_io" =>
               /\ opLock.owner = t
               /\ ensured[t] = 1
               /\ via[t] \in {"connected", "rechecked"} \cup Established
               /\ cl[t] # NoClient

\* A setter called on a disconnected session has connected and is now writing
\* on the transport it established.
C9_Witness ==
    \E t \in Tasks :
        pc[t] = "wr_io" /\ via[t] = "established" /\ estab[t] = cl[t]

\* C10: a step of a setter changes MugData only when its write_gatt_char
\* returned, and then assigns exactly its slot; a setter whose connection
\* attempt failed raises.
C10_StoreAfterWrite ==
    [][\A t \in Tasks :
          (StepOf(t) /\ op'[t].k = "set") =>
              /\ IF ~Starts(t) /\ pc[t] = "wr_io" /\ outcome'[t] = "ok"
                 THEN data' = [data EXCEPT ![op[t].a] = op[t].v]
                 ELSE data' = data
              /\ via'[t] = "raised" => outcome'[t] = "raised"
              /\ outcome'[t] = "raised" => data' = data
      ]_vars

\* A setter's write was attempted and raised; its slot still holds the value
\* it had at construction.
C10_Witness ==
    \E t \in Tasks :
        /\ pc[t] = "done" /\ op[t].k = "set" /\ outcome[t] = "raised"
        /\ ensured[t] = 1 /\ via[t] = "established"
        /\ data[op[t].a] = DefaultValue

(* ------------------------------ refreshes ------------------------------ *)

\* The step is taken by task t inside a getter: it moves on or yields a value.
ReadStepOf(t) == pc'[t] # pc[t] \/ vals'[t] # vals[t]

\* Task t is in update_initial() or update_queued_attributes().
Refreshing(t) == op[t].k \in {"update", "queued"}

\* C11: when the read of udsk or dsk fails during a refresh (the link is down,
\* so read_gatt_char raises), the refresh does not raise: the getter yields
\* None for udsk and "" for dsk and the refresh goes on to the remaining
\* attributes; when the read of any other attribute fails, the refresh raises
\* to its caller.
C11_BestEffortReads ==
    [][\A t \in Tasks :
          (pc[t] = "rd_io" /\ Refreshing(t) /\ cl[t] \notin connected
                /\ ReadStepOf(t)) =>
              LET a == Head(todo[t])
              IN IF a \in {"udsk", "dsk"}
                 THEN /\ outcome'[t] # "raised"
                      /\ vals'[t] = Append(vals[t],
                                      <<a, IF a = "udsk" THEN "None" ELSE "">>)
                      /\ todo'[t] = Tail(todo[t])
                      /\ pc'[t] \in {"rd_io", "rd_wait"}
                 ELSE pc'[t] = "done" /\ outcome'[t] = "raised"
      ]_vars

\* update_initial() has gone on to date_time_zone after the reads of udsk and
\* dsk both failed.
C11_Witness ==
    \E t \in Tasks :
        /\ op[t].k = "update" /\ pc[t] = "rd_io"
        /\ Len(vals[t]) = 3 /\ Head(todo[t]) = "date_time_zone"
        /\ vals[t][2] = <<"udsk", "None">>
        /\ vals[t][3] = <<"dsk", "">>

\* Values read from the device, or assigned by a setter after its write.
KnownValues == DeviceValues

\* C12 as stated: no refresh step replaces a known value of a MugData slot by
\* an error marker or placeholder (None, "").
C12_PriorValueKept ==
    [][\A a \in Attrs : data[a] \in KnownValues => data'[a] \in KnownValues]_vars

\* C12, amended: a refresh changes MugData only in the step that completes it
\* normally, and that step stores every value its getters yielded; so a failed
\* read of an attribute other than udsk and dsk, which makes the refresh raise,
\* leaves every slot as it was, and no placeholder ever replaces a known value of
\* such a slot; whereas the None / "" the getters of udsk and dsk yield for a
\* failed read is stored in the slot.
C12_FailedReadStore ==
    [][/\ \A t \in Tasks :
            (pc[t] = "rd_io" /\ Refreshing(t) /\ ReadStepOf(t)) =>
                IF pc'[t] = "done" /\ outcome'[t] = "ok"
                THEN \A i \in 1..Len(vals[t]) :
                        data'[vals[t][i][1]] = vals[t][i][2]
                ELSE data' = data
       /\ \A t \in Tasks :
            (pc[t] = "rd_io" /\ Refreshing(t) /\ ReadStepOf(t)
                  /\ cl[t] \notin connected
                  /\ Head(todo[t]) \notin {"udsk", "dsk"}) =>
                outcome'[t] = "raised" /\ data' = data
       /\ \A a \in Attrs \ {"udsk", "dsk"} :
            data[a] \in KnownValues => data'[a] \in KnownValues
      ]_vars

\* A second update_initial() whose read of udsk failed has replaced the value
\* the first one had stored by None, and reported the change.
C12_Witness ==
    \E t \in Tasks :
        /\ op[t].k = "update" /\ pc[t] = "done" /\ outcome[t] = "ok"
        /\ \E i \in 1..Len(vals[t]) : vals[t][i] = <<"udsk", "a", "None">>
        /\ data["udsk"] = "None"

\* The step is the normal return of a refresh of task t: update_info and, if
\* it reported changes, _fire_callbacks, with no suspension in between.
RefreshReturns(t) ==
    /\ Refreshing(t) /\ pc[t] = "rd_io"
    /\ pc'[t] = "done" /\ outcome'[t] = "ok"

\* C13: a refresh that returns changes (the list it returns, vals', is not
\* empty, which is the case exactly when a slot changed) dispatches once, in the
\* step that updated the slots, calling each registered callback exactly once
\* and no other; a refresh that returns no change, a refresh that raises, and
\* every other step of a refresh dispatch nothing.
C13_CallbacksIffChanges ==
    [][\A t \in Tasks :
          /\ RefreshReturns(t) =>
                /\ (vals'[t] # <<>>) <=> (data' # data)
                /\ IF vals'[t] # <<>>
                   THEN /\ fires' = fires + 1
                        /\ \A cb \in Callbacks :
                              invoked'[cb] = IF Registered(cb) THEN 1 ELSE 0
                   ELSE fires' = fires /\ invoked' = invoked
          /\ (op'[t].k \in {"update", "queued"} /\ StepOf(t) /\ ~RefreshReturns(t)) =>
                fires' = fires /\ invoked' = invoked /\ data' = data
      ]_vars

\* A queued refresh has stored the target temperature it read and called the
\* registered callback once.
C13_Witness ==
    \E t \in Tasks :
        /\ op[t].k = "queued" /\ pc[t] = "done" /\ outcome[t] = "ok"
        /\ vals[t] = <<<<"target_temp", DefaultValue, "a">>>>
        /\ Registered("cb1") /\ invoked["cb1"] = 1 /\ fires = 1

\* The attributes of a sequence of (attribute, value) pairs or of attributes.
AttrsRead(vs) == {vs[i][1] : i \in 1..Len(vs)}
AttrsToRead(td) == {td[i] : i \in 1..Len(td)}

\* The step in which task t calls update_queued_attributes().
StartsQueued(t) == Starts(t) /\ op'[t].k = "queued"

\* The step in which update_queued_attributes() of task t returns or raises.
QueuedEnds(t) == op'[t].k = "queued" /\ pc'[t] = "done" /\ StepOf(t)

\* C14 as stated: update_queued_attributes takes the whole queue and empties
\* it in its first step, and every attribute queued since is in the queue when
\* the call returns.
C14_QueuedWhenCallReturns ==
    [][\A t \in Tasks :
          /\ StartsQueued(t) => taken'[t] = queue /\ queue' = {}
          /\ QueuedEnds(t) => late'[t] \subseteq queue'
      ]_vars

\* C14, amended: update_queued_attributes takes the whole queue and empties it
\* in its first step, before it suspends; it reads the attributes it took and no
\* other; an attribute queued while its reads are in flight is in the queue
\* from then on; and the queue loses an attribute only in such a first step, to
\* the call that takes it, so that when the call returns the attribute is either
\* in the queue or was taken by another call.
C14_QueueTakenAtomically ==
    [][/\ \A t \in Tasks :
            /\ StartsQueued(t) =>
                  /\ taken'[t] = queue /\ queue' = {}
                  /\ AttrsToRead(todo'[t]) = IF pc'[t] = "done" THEN {} ELSE queue
            /\ (Draining(t) /\ StepOf(t) /\ ~Starts(t)) =>
                  /\ AttrsRead(vals[t]) \cup AttrsToRead(todo[t]) = taken[t]
                  /\ AttrsRead(vals[t]) \cap AttrsToRead(todo[t]) = {}
                  /\ (pc'[t] = "done" /\ outcome'[t] = "ok") =>
                        /\ pc[t] = "rd_io"
                        /\ AttrsRead(vals[t]) \cup {Head(todo[t])} = taken[t]
            /\ late'[t] \ late[t] \subseteq queue'
       /\ \A a \in queue \ queue' :
            \E t \in Tasks : StartsQueued(t) /\ a \in taken'[t]
      ]_vars

\* An update_queued_attributes() that took the battery has returned, and the
\* target temperature queued while it was reading is in the queue.
C14_Witness ==
    \E t \in Tasks :
        /\ op[t].k = "queued" /\ pc[t] = "done" /\ outcome[t] = "ok"
        /\ taken[t] = {"battery"}
        /\ late[t] = {"target_temp"} /\ queue = {"target_temp"}

(* ---------------------------- notifications ---------------------------- *)

\* The step is a call of _notify_callback.
Notified == events' = events + 1

\* A notification with this code was processed fewer than 5 time units ago.
InWindow(code) == latest[code] # 0 /\ now - latest[code] < 5

\* C15: a notification is ignored (nothing but the count of notifications
\* changes: the time recorded for its code stays, so the window is not
\* restarted) when one with the same code was processed fewer than 5 time units
\* earlier; otherwise, whatever was recorded for other codes, it is processed and
\* its time recorded for its code alone.
C15_Debounce ==
    [][Notified =>
          LET code == event'.code
          IN IF InWindow(code)
             THEN /\ latest' = latest
                  /\ UNCHANGED <<queue, data, fires, invoked>>
             ELSE /\ latest' = [latest EXCEPT ![code] = now]
                  /\ queue' = queue \cup
                        (IF event'.ch = "push" THEN QueuedBy(code) ELSE {})
      ]_vars

\* CHARGER_CONNECTED was processed at time 1 and a second CHARGER_CONNECTED,
\* received before time 6, was ignored.
C15_Witness ==
    /\ events = 2 /\ event = [ch |-> "push", code |-> 2]
    /\ latest[2] = 1 /\ \A code \in Codes \ {2} : latest[code] = 0
    /\ now = 5 /\ fires = 1

\* C16: a processed notification of PUSH_EVENT adds to the queue exactly the
\* attribute of its code: battery for 1, 2 and 3, target_temp for 4,
\* current_temp for 5, liquid_level for 7, liquid_state for 8, battery_voltage
\* for 9, and nothing for 6 or a code outside 1..9; a notification of STATISTICS
\* adds nothing; and the queue, a set, never holds another name.
C16_QueuedAttribute ==
    [][/\ Notified =>
            LET code == event'.code
                added == IF code \in {1, 2, 3} THEN {"battery"}
                         ELSE IF code = 4 THEN {"target_temp"}
                         ELSE IF code = 5 THEN {"current_temp"}
                         ELSE IF code = 7 THEN {"liquid_level"}
                         ELSE IF code = 8 THEN {"liquid_state"}
                         ELSE IF code = 9 THEN {"battery_voltage"}
                         ELSE {}
            IN IF ~InWindow(code) /\ event'.ch = "push"
               THEN queue' = queue \cup added
               ELSE queue' = queue
       /\ queue' \subseteq {"battery", "target_temp", "current_temp",
                            "liquid_level", "liquid_state", "battery_voltage"}
      ]_vars

\* LIQUID_LEVEL_CHANGED and BATTERY_VOLTAGE_STATE_CHANGED were processed.
C16_Witness ==
    /\ events = 2 /\ latest[7] # 0 /\ latest[9] # 0
    /\ queue = {"liquid_level", "battery_voltage"}

\* C17: a processed CHARGER_CONNECTED (2) or CHARGER_DISCONNECTED (3)
\* notification of PUSH_EVENT assigns the battery slot, in the same step and
\* with no step of any task (so no transport read), a BatteryInfo with
\* on_charging_base true for 2 and false for 3 and the percentage of the slot's
\* BatteryInfo, or 0 when the slot holds None; it calls each registered callback
\* exactly once and queues battery.  Any other notification leaves MugData and
\* the callbacks alone.
C17_ChargerEvent ==
    [][Notified =>
          LET code == event'.code
              known == data["battery"] \in {"50%/on", "50%/off"}
          IN /\ UNCHANGED <<pc, cl, opLock, dev>>
             /\ IF ~InWindow(code) /\ event'.ch = "push" /\ code \in {2, 3}
                THEN /\ data' = [data EXCEPT !["battery"] =
                                   IF code = 2
                                   THEN (IF known THEN "50%/on" ELSE "0%/on")
                                   ELSE (IF known THEN "50%/off" ELSE "0%/off")]
                     /\ fires' = fires + 1
                     /\ \A cb \in Callbacks :
                           invoked'[cb] = IF Registered(cb) THEN 1 ELSE 0
                     /\ "battery" \in queue'
                ELSE UNCHANGED <<data, fires, invoked>>
      ]_vars

\* The battery was read by a queued refresh (50%, off the base), and then
\* CHARGER_CONNECTED was processed: the slot keeps the 50% and is on the base,
\* the registered callback was called, and battery is queued again.
C17_Witness ==
    /\ data["battery"] = "50%/on"
    /\ event = [ch |-> "push", code |-> 2]
    /\ Registered("cb1") /\ invoked["cb1"] = 1 /\ fires = 2
    /\ queue = {"battery"}

(* ------------------------------ callbacks ------------------------------ *)

\* C18: register_callback of a callback that is registered changes nothing and
\* returns the handle stored at its first registration; no callback is ever
\* registered twice, the handles of distinct callbacks are distinct, the handle
\* returned is the one stored for the callback, and a dispatch calls a callback
\* at most once.
C18_RegisterIdempotent ==
    [][/\ (api'.f = "register" /\ Registered(api'.cb)) =>
            /\ UNCHANGED <<callbacks, handles>>
            /\ api'.h = HandleOf(api'.cb)
       /\ \A i, j \in 1..Len(callbacks') :
            (callbacks'[i][1] = callbacks'[j][1] \/ callbacks'[i][2] = callbacks'[j][2])
                => i = j
       /\ api'.f = "register" =>
            \E i \in 1..Len(callbacks') : callbacks'[i] = <<api'.cb, api'.h>>
       /\ \A cb \in Callbacks : invoked'[cb] <= 1
      ]_vars

\* cb1 then cb2 were registered, and the latest call, register_callback(cb1),
\* returned the handle of cb1's registration; the latest dispatch called both.
C18_Witness ==
    /\ callbacks = <<<<"cb1", 1>>, <<"cb2", 2>>>>
    /\ api = [f |-> "register", cb |-> "cb1", h |-> 1]
    /\ invoked["cb1"] = 1 /\ invoked["cb2"] = 1

\* The step is an invocation of the unregister handle h.
Unregisters(h) ==
    /\ h \in 1..Len(handles)
    /\ api' = [f |-> "unregister", cb |-> handles[h], h |-> h]

\* C19 as stated: the first invocation of an unregister handle removes its
\* callback, and any later one, whatever happened in between, leaves the
\* registered callbacks as they are.
C19_UnregisterIdempotent ==
    [][\A h \in 1..MaxHandles :
          Unregisters(h) =>
              IF h \in used THEN callbacks' = callbacks
              ELSE ~Registered(handles[h])'
      ]_vars

\* C19, amended: an invocation of an unregister handle leaves its callback
\* unregistered and every other registration as it was; so a later invocation
\* changes nothing when the callback is not registered at that moment, and
\* removes the callback's new registration when it was registered again in
\* between.
C19_UnregisterRemoves ==
    [][\A h \in 1..MaxHandles :
          Unregisters(h) =>
              /\ ~Registered(handles[h])'
              /\ \A cb \in Callbacks \ {handles[h]} :
                    Registered(cb)' = Registered(cb) /\ HandleOf(cb)' = HandleOf(cb)
              /\ ~Registered(handles[h]) => callbacks' = callbacks
              /\ (h \in used /\ Registered(handles[h])) =>
                    HandleOf(handles[h]) # h /\ callbacks' # callbacks
      ]_vars

\* cb1 was registered, unregistered by its handle, registered again, and the
\* first handle, invoked once more, has removed the second registration.
C19_Witness ==
    /\ handles = <<"cb1", "cb1">> /\ used = {1}
    /\ api = [f |-> "unregister", cb |-> "cb1", h |-> 1]
    /\ callbacks = <<>>

(* ----------------------------- update_info ---------------------------- *)

\* The position of attribute a among the supplied pairs (0: not supplied).
Supplied(a) ==
    IF \E i \in 1..Len(kwargs) : kwargs[i][1] = a
    THEN CHOOSE i \in 1..Len(kwargs) : kwargs[i][1] = a
    ELSE 0

\* The records of attribute a in a list of changes.
RecordsOf(cs, a) == {i \in 1..Len(cs) : cs[i][1] = a}

\* C20: update_info stores the supplied value of an attribute and returns
\* exactly one record (attribute, old, new) for it when the value differs from
\* the slot's, and leaves the slot and returns no record for it when they are
\* equal or when the attribute is not supplied; the records come in the order
\* the attributes were supplied; and a second call with the same arguments
\* returns no record and changes no slot.
C20_UpdateInfo ==
    [][applied' = applied + 1 =>
          /\ \A a \in Attrs :
                LET i == Supplied(a)
                IN IF i # 0 /\ kwargs[i][2] # data[a]
                   THEN /\ data'[a] = kwargs[i][2]
                        /\ \E j \in 1..Len(returned') :
                              /\ RecordsOf(returned', a) = {j}
                              /\ returned'[j] = <<a, data[a], kwargs[i][2]>>
                   ELSE /\ data'[a] = data[a]
                        /\ RecordsOf(returned', a) = {}
          /\ \A i, j \in 1..Len(returned') :
                i < j => Supplied(returned'[i][1]) < Supplied(returned'[j][1])
          /\ applied = 1 => returned' = <<>> /\ data' = data
      ]_vars

\* update_info was called once with two values, the first equal to its slot and
\* the second not: it stored the second and returned the one record for it.
C20_Witness ==
    /\ applied = 1
    /\ kwargs = <<<<"target_temp", "a">>, <<"udsk", "None">>>>
    /\ returned = <<<<"udsk", "a", "None">>>>
    /\ data["target_temp"] = "a" /\ data["udsk"] = "None"

(* ----------------------------- capabilities ---------------------------- *)

\* The step is a call of the getter or the setter of attribute a by task t.
Calls(t, a) == Starts(t) /\ op'[t].k \in {"get", "set"} /\ op'[t].a = a

\* The call ends in the step that makes it, raising the error named, with the
\* connection and MugData as they were.
RaisesAtOnce(t, error) ==
    /\ pc'[t] = "done" /\ outcome'[t] = "raised" /\ vals'[t] = <<error>>
    /\ UNCHANGED <<client, connected, subscribed, startNotify, nextClient,
                   connectLock, opLock>>
    /\ data' = data

\* C21: calling the getter or the setter of an attribute that is not in the
\* session's device_attributes raises NotImplementedError at once: nothing is
\* established, read or written, and MugData is unchanged.
C21_CapabilityError ==
    [][\A t \in Tasks, a \in Attrs :
          (Calls(t, a) /\ a \notin deviceAttributes) =>
              RaisesAtOnce(t, "NotImplementedError")
      ]_vars

\* The step is a call of the setter of attribute a by task t, with argument x.
Sets(t, a) == Starts(t) /\ op'[t].k = "set" /\ op'[t].a = a

\* A name the pattern does not match: no prefix of 1 to 16 characters of the
\* class ends at the end of the name or right before its final line feed.
Unmatched(name) ==
    ~ \E k \in 1..16 :
         /\ k <= Len(name)
         /\ \A i \in 1..k : name[i] = "p"
         /\ \/ k = Len(name)
            \/ k = Len(name) - 1 /\ name[Len(name)] = "n"

\* A temperature that is neither 0 nor within the range of the preferred unit.
OutsideRange(x) ==
    /\ x # 0
    /\ IF useMetric THEN x < 49 \/ x > 63 ELSE x < 120 \/ x > 145

\* The step is a call of set_name, set_target_temp or set_volume_level by task
\* t with an argument the setter does not accept.
Rejects(t) ==
    \/ Sets(t, "name") /\ Unmatched(op'[t].x)
    \/ Sets(t, "target_temp") /\ OutsideRange(op'[t].x)
    \/ Sets(t, "volume_level") /\ op'[t].x \notin 0..2

\* C22 as stated: a setter called with an argument it does not accept raises a
\* validation error (ValueError) at once, before any connection attempt or
\* write, and MugData is unchanged.
C22_ValidationError ==
    [][\A t \in Tasks : Rejects(t) => RaisesAtOnce(t, "ValueError")]_vars

\* C22, amended: a setter called with an argument it does not accept raises at
\* once, before any connection attempt or write, with MugData unchanged;
\* the error is ValueError unless the attribute is required and missing from
\* the session's device_attributes, in which case the wrapper's
\* NotImplementedError comes first.  The range of set_target_temp is that of
\* the preferred unit, whatever unit the device is set to.
C22_ValidationPrecedesIO ==
    [][\A t \in Tasks :
          Rejects(t) =>
              RaisesAtOnce(t, IF op'[t].a \in {"name", "volume_level"}
                                   /\ op'[t].a \notin deviceAttributes
                              THEN "NotImplementedError" ELSE "ValueError")
      ]_vars

\* A metric session has set the device to Fahrenheit, and set_target_temp(120),
\* within the imperial range only, has raised ValueError.
C22_Witness ==
    \E t, u \in Tasks :
        /\ useMetric /\ data["temperature_unit"] = FAHRENHEIT
        /\ op[t].k = "set" /\ op[t].a = "temperature_unit" /\ outcome[t] = "ok"
        /\ op[u].k = "set" /\ op[u].a = "target_temp" /\ op[u].x = 120
        /\ pc[u] = "done" /\ outcome[u] = "raised" /\ vals[u] = <<"ValueError">>
        /\ data["target_temp"] = DefaultValue

\* C23: the attribute set follows from the model alone: name is in it for the
\* four mugs and the travel mug only (not for the cup, the tumbler, an unknown
\* or an unset model), volume_level and battery_voltage for the travel mug
\* only, led_colour for every model but the travel mug, and every other
\* attribute for every model.
C23_CapabilityTable ==
    /\ deviceAttributes \subseteq Attrs
    /\ \A a \in Attrs :
          a \in deviceAttributes <=>
              CASE a = "name" ->
                      model \in {MUG_1_10_OZ, MUG_1_14_OZ, MUG_2_10_OZ, MUG_2_14_OZ,
                                 TRAVEL_MUG_12_OZ}
                [] a \in {"volume_level", "battery_voltage"} ->
                      model = TRAVEL_MUG_12_OZ
                [] a = "led_colour" -> model # TRAVEL_MUG_12_OZ
                [] OTHER -> TRUE

\* has_attribute("volume_level") has answered yes on a travel mug, whose set
\* has every attribute but led_colour.
C23_Witness ==
    /\ model = TRAVEL_MUG_12_OZ
    /\ snapshot = [f |-> "has_attribute", attrs |-> {"volume_level"}]
    /\ deviceAttributes = Attrs \ {"led_colour"}

\* C24: the set device_attributes returns for an unchanged model never gains or
\* loses a member, whatever the engine does: refreshes, notifications and the
\* snapshots MugData.formatted and MugData.as_dict leave it as it was.
C24_CapabilitySetImmutable ==
    [][model' = model => deviceAttributes' = deviceAttributes]_vars

\* Task t is in update_initial() or update_all().
FullRefresh(t) == op[t].k \in {"update", "update_all"}

\* The step makes task t's refresh call the getter of attribute a.
InvokesGetter(t, a) ==
    /\ StepOf(t) /\ op'[t].k \in {"update", "update_all"}
    /\ pc'[t] \in {"rd_io", "rd_wait"}
    /\ todo'[t] # <<>> /\ Head(todo'[t]) = a
    /\ todo'[t] # todo[t] \/ Starts(t)

\* C25: update_initial reads exactly INITIAL_ATTRS and update_all exactly
\* device_attributes less INITIAL_ATTRS; the two sets are disjoint and together
\* make up device_attributes; no getter is called for an attribute outside
\* device_attributes, and no full refresh raises NotImplementedError.
C25_FullRefreshCoverage ==
    [][/\ InitialAttrs \cap (deviceAttributes' \ InitialAttrs) = {}
       /\ InitialAttrs \cup (deviceAttributes' \ InitialAttrs) = deviceAttributes'
       /\ \A t \in Tasks :
            /\ (Starts(t) /\ op'[t].k = "update_all") =>
                   \/ AttrsToRead(todo'[t]) = deviceAttributes \ InitialAttrs
                   \/ pc'[t] = "done"
            /\ \A a \in Attrs :
                   InvokesGetter(t, a) =>
                       /\ a \in deviceAttributes'
                       /\ op'[t].k = "update" <=> a \in InitialAttrs
            /\ (StepOf(t) /\ op'[t].k = "update" /\ pc'[t] = "done"
                    /\ outcome'[t] = "ok") =>
                   AttrsRead(vals[t]) \cup {Head(todo[t])} = InitialAttrs
            /\ (StepOf(t) /\ FullRefresh(t)' /\ outcome'[t] = "raised") =>
                   vals'[t] # <<"NotImplementedError">>
      ]_vars

\* The step in which a disconnect() call of task t, made directly or by leaving
\* the block of connection(), returns normally.
DisconnectReturns(t) ==
    /\ StepOf(t) /\ op'[t].k \in {"disconnect", "with"}
    /\ pc'[t] = "done" /\ outcome'[t] = "ok"

\* The step in which an _ensure_connection call of task t returns without
\* having established a transport.
EnsureFindsConnection(t) ==
    /\ StepOf(t) /\ via'[t] \in {"connected", "rechecked"}
    /\ Starts(t) \/ pc[t] \in {"ec_wait", "wr_wait"}

\* C26: when disconnect() returns the handle is cleared, whether the session was
\* connected or not; a connected transport has by then been closed, its
\* subscription ended, a failing unsubscribe not stopping the close.  A cleared
\* handle is not used again: _ensure_connection returns without establishing
\* only when there is a connected handle, and the transport it assigns to the
\* handle is one that was never the handle before.
C26_DisconnectClearsHandle ==
    [][/\ \A t \in Tasks :
            /\ DisconnectReturns(t) =>
                   /\ client' = NoClient
                   /\ IF pc[t] = "dc_close"
                      THEN cl[t] \notin connected' /\ cl[t] \notin subscribed'
                      ELSE ~IsConnected
            /\ (pc[t] = "dc_unsub" /\ pc'[t] # "dc_unsub"
                    /\ cl[t] \in subscribed' /\ client # NoClient) =>
                   pc'[t] = "dc_close"
            /\ EnsureFindsConnection(t) => client # NoClient /\ client \in connected
       /\ client' \notin {client, NoClient} =>
            /\ startNotify[client'] = 0
            /\ \E t \in Tasks : pc[t] = "ec_pair" /\ estab[t] = client'
      ]_vars

\* The block of connection() was left normally and its disconnect() closed
\* transport 1 and cleared the handle; a later _ensure_connection established
\* transport 2, which is now the handle.
C26_Witness ==
    /\ client = 2 /\ client \in connected /\ 1 \notin connected
    /\ startNotify[1] = 1
    /\ \E t, u \in Tasks :
         /\ op[t].k = "with" /\ pc[t] = "done" /\ outcome[t] = "ok"
         /\ op[u].k = "connect" /\ pc[u] = "done" /\ via[u] \in Established
         /\ op[u].n > op[t].n

\* The step is the loss of a transport's link, reported to _disconnect_callback:
\* is_connected turns False and no task moves.
LinkLost == connected' # connected /\ pc' = pc /\ op' = op

\* The step in which task t, inside _ensure_connection, turns to
\* establish_connection or to waiting for the connection lock.
Reconnects(t) ==
    /\ pc'[t] \in {"ec_establish", "ec_wait"}
    /\ pc[t] \notin {"ec_establish", "ec_wait"} \/ Starts(t)

\* C27: the disconnected callback of the transport starts no connection attempt
\* and leaves the handle, the queue, MugData, the callbacks, the locks and the
\* expected flag as they are.  A connection is attempted only by a task that
\* calls _ensure_connection and finds the session not connected, whatever the
\* expected flag says.
C27_DisconnectCallbackPassive ==
    [][/\ LinkLost =>
            /\ UNCHANGED <<client, queue, data, callbacks, nextClient, connectLock,
                           opLock, expectedDisconnect, startNotify>>
            /\ \A t \in Tasks : pc'[t] \notin EcPcs \/ pc[t] \in EcPcs
       /\ \A t \in Tasks :
            /\ Reconnects(t) =>
                   /\ StepOf(t) /\ ~IsConnected
                   /\ Starts(t) \/ pc[t] \in {"ec_wait", "wr_wait"}
            /\ (Starts(t) /\ op'[t].k \in {"connect", "with"} /\ ~IsConnected) =>
                   Reconnects(t)
      ]_vars

\* The link was lost while a disconnect(expected=True) was closing the transport,
\* the close then raised and left the flag set and the handle in place; a later
\* _ensure_connection found the session not connected and is establishing.
C27_Witness ==
    /\ expectedDisconnect /\ client = 1 /\ client \notin connected
    /\ \E t, u \in Tasks :
         /\ op[t].k = "with" /\ pc[t] = "done" /\ outcome[t] = "raised"
         /\ op[u].k = "connect" /\ pc[u] = "ec_establish" /\ op[u].n > op[t].n

\* The step in which task t leaves the block of `async with mug.connection():`.
LeavesBlock(t) == pc[t] = "in_block" /\ pc'[t] # "in_block"

\* The step makes task t call disconnect(): with a connected handle it enters
\* (or waits for) the connection lock, else it clears the handle and returns.
CallsDisconnect(t) ==
    \/ pc'[t] \in {"dc_wait", "dc_unsub", "dc_close"}
    \/ ~IsConnected /\ client' = NoClient /\ pc'[t] = "done" /\ outcome'[t] = "ok"

\* C28: connection() used as a context manager returns to its block only once
\* _ensure_connection has returned normally, and calls disconnect() when the
\* block is left, whether the block completes normally or raises.
C28_ConnectionContext ==
    [][\A t \in Tasks :
          /\ (pc'[t] = "in_block" /\ pc[t] # "in_block") =>
                 /\ op'[t].k = "with" /\ ensured'[t] = 1
                 /\ via'[t] \in Established \cup {"connected", "rechecked"}
          /\ LeavesBlock(t) => CallsDisconnect(t)
      ]_vars

\* Task t is inside a refresh that has read some of its attributes and has not
\* yet passed them to update_info.
MidRefresh(t) ==
    /\ op[t].k \in {"update", "update_all", "queued"}
    /\ pc[t] \in {"rd_io", "rd_wait"} /\ vals[t] # <<>>

\* C29: refreshes and setters running at the same time are serialized as whole
\* operations: while a refresh is between its first read and its update_info no
\* other operation's transport call is made, and a MugData slot is only ever
\* assigned the value the device holds at that moment, that is the value of the
\* latest transport call on the attribute, never one read before a newer value
\* was stored.
C29_SerializedMutation ==
    [][/\ \A t, u \in Tasks :
            (MidRefresh(t) /\ u # t /\ pc[u] \notin IoPcs) => pc'[u] \notin IoPcs
       /\ \A a \in Attrs \ BestEffortAttrs :
            data'[a] # data[a] => data'[a] = dev'[a]
      ]_vars

\* C30: the temperature codec round-trips: for every two-byte wire value w,
\* little-endian hundredths of a degree, the decoded temperature is w times
\* 0.01 and encoding it (value / 0.01 rounded to the nearest integer, as two
\* little-endian bytes) yields w again; CD 15 decodes to 55.81, which encodes
\* to CD 15.
C30_CodecRoundTrip ==
    /\ stage \in {"decoded", "encoded"} =>
           /\ temp - BytesToLittleInt(wire) * Grain \in FloatError
           /\ wire = <<205, 21>> => Round(temp) = 5581
    /\ stage = "encoded" => target = wire

\* CD 15 was decoded, to a float just below 55.81, and encoded again.
C30_Witness ==
    /\ stage = "encoded" /\ wire = <<205, 21>> /\ target = <<205, 21>>
    /\ temp = 5581 * Grain - 1

\* C31: set_led_colour writes the caller's red, green and blue as the first
\* three bytes and 255 as the fourth, whatever brightness the caller supplied.
C31_BrightnessForced ==
    (call.f = "set_led_colour" /\ call.done) =>
        /\ Len(call.out) = 4
        /\ \A i \in 1..3 : call.out[i] = call.arg[i]
        /\ call.out[4] = 255

\* C32: the udsk codec is reversible: get_udsk, reading the characteristic as a
\* successful set_udsk(s) left it, yields s.
C32_UdskRoundTrip ==
    call.f = "get_udsk" => call.out = call.arg

\* The step is a full refresh that returned.
RefreshedTemps == opsStarted' # opsStarted /\ call'.f = "update_all"

\* C33: after a successful full refresh the stored current_temp and target_temp
\* are in the unit the user prefers, whatever unit the device is set to: the
\* value read is converted exactly when the unit of the device differs from the
\* preferred one, on the first refresh as on any later one.
C33_StoredInPreferredUnit ==
    [][RefreshedTemps =>
          \A a \in {"current_temp", "target_temp"} :
              data'[a] = Express(dev[a], dev["temperature_unit"], PreferredUnit)
      ]_vars

\* The step is a set_target_temp call that returned.
TargetSet == opsStarted' # opsStarted /\ call'.f = "set_target_temp"

\* C38: after set_target_temp(v) succeeds the stored target_temp is v, in the
\* preferred unit, which is what get_target_temp then returns for the unchanged
\* device; and a refresh that follows the write at once reports no change of
\* target_temp.
C38_StoredTargetIsReadBack ==
    [][/\ TargetSet =>
            /\ data'["target_temp"] = call'.arg
            /\ data'["target_temp"] = ConvertToUserUnit(dev["target_temp"])'
       /\ (RefreshedTemps /\ call.f = "set_target_temp") =>
            \A i \in 1..Len(call'.out) : call'.out[i][1] # "target_temp"
      ]_vars

(* ---------------------------- advertisements --------------------------- *)

\* The resolution of advertisement adv to out, clause by clause; `unnamed` is
\* the model of an advertisement that has neither an Ember payload nor a name.
ResolvesAs(adv, out, unnamed) ==
    LET md == adv.manufacturer_data
        travels == adv.service_uuids \cap TRAVEL_MUG_SERVICE_UUIDS # {}
    IN IF EMBER_BLE_SIG \in DOMAIN md
       THEN LET p == md[EMBER_BLE_SIG]
                v == BytesToBigInt(p, TRUE)
            IN IF Len(p) < 4
               THEN /\ out.model = IF travels THEN TRAVEL_MUG_12_OZ
                                   ELSE GetModelFromSingleIntAndServices(v, {})
                    /\ out.colour = GetColourFromInt(v)
                    /\ (p = <<129>> /\ ~travels)
                           => out = ModelInfo(MUG_2_10_OZ, "Black")
               ELSE /\ out.model = GetModelFromIdAndGen(p[2], p[3])
                    /\ (p[2] = 1 /\ p[3] < 2) => out.model = MUG_1_10_OZ
                    /\ (p[2] = 2 /\ p[3] < 2) => out.model = MUG_1_14_OZ
                    /\ out.colour = GetColourFromInt(p[4])
       ELSE /\ out.colour = NoColour
            /\ out.model =
                   IF Contains(adv.local_name, <<"T", "r", "a", "v", "e", "l">>)
                   THEN TRAVEL_MUG_12_OZ
                   ELSE IF Contains(adv.local_name, <<"C", "u", "p">>)
                   THEN CUP_6_OZ
                   ELSE IF adv.local_name = <<>> THEN unnamed
                   ELSE UNKNOWN_DEVICE

\* get_model_info_from_advertiser_data returns.
Resolved ==
    /\ call.f = "get_model_info_from_advertiser_data"
    /\ ~call.done
    /\ call'.done

C35_AdvertisementRefines ==
    [][/\ \A d \in Devices, adv \in SeenAdvertisements :
              BleEventCallback(d, adv) =>
                  /\ device' = d
                  /\ <<model', modelColour'>> # <<model, modelColour>>
                         => model = NoModel /\ adv.manufacturer_data # <<>>
                  /\ model # NoModel
                         => UNCHANGED <<model, modelColour, deviceAttributes>>
       /\ ModelName => snapshot'.attrs = {model}
       /\ \A a \in Attrs :
              AskAttribute(a) =>
                  (snapshot'.attrs = {a} <=> a \in DeviceAttributes(model))
      ]_vars

(* ------------------------------ empty queue ---------------------------- *)

\* C36: update_queued_attributes() on an empty queue returns the empty list of
\* changes in the step that calls it: no connection is attempted (the handle,
\* the transports and the connection lock stay as they are), no read is issued
\* (the operation lock is not taken and the call never suspends), MugData and
\* the queue are not written and no callback is invoked.
C36_EmptyQueueNoOp ==
    [][\A t \in Tasks :
          (StartsQueued(t) /\ queue = {}) =>
              /\ pc'[t] = "done" /\ outcome'[t] = "ok"
              /\ vals'[t] = <<>>
              /\ UNCHANGED <<connVars, opLock, data, dev, queue, fires, invoked>>
      ]_vars

\* update_queued_attributes() has returned on an empty queue, in a session
\* that never connected.
C36_Witness ==
    \E t \in Tasks :
        /\ op[t].k = "queued" /\ pc[t] = "done" /\ outcome[t] = "ok"
        /\ taken[t] = {} /\ vals[t] = <<>>
        /\ client = NoClient /\ nextClient = 0

(* -------------------------------- locks -------------------------------- *)

\* Task t waits for the operation lock.
AwaitsOperationLock(t) ==
    \/ pc[t] \in {"rd_wait", "wr_wait"}
    \/ \E i \in 1..Len(opLock.waiters) : opLock.waiters[i] = t

\* Task t has an operation under way.
Pending(t) == pc[t] \notin {"idle", "done"}

\* C37: no task holding the connection lock waits for the operation lock; no
\* task takes the operation lock inside the connection lock (a step that takes
\* it has left the connection lock or did not hold it), and a task takes the
\* connection lock while holding the operation lock only in a write, which
\* connects on demand; and every operation under way, the transport answering
\* its calls, eventually returns or raises.
C37_NoDeadlock ==
    /\ [](\A t \in Tasks : connectLock.owner = t => ~AwaitsOperationLock(t))
    /\ [][\A t \in Tasks :
            /\ (opLock'.owner = t /\ opLock.owner # t)
                   => ~(connectLock.owner = t /\ connectLock'.owner = t)
            /\ (connectLock'.owner = t /\ connectLock.owner # t
                    /\ opLock'.owner = t) => op'[t].k = "set"
         ]_vars
    /\ \A t \in Tasks : Pending(t) ~> ~Pending(t)

\* A write that holds the operation lock has taken the connection lock to
\* connect, while another task waits for the operation lock.
C37_Witness ==
    \E t, u \in Tasks :
        /\ op[t].k = "set"
        /\ opLock.owner = t /\ connectLock.owner = t
        /\ pc[t] = "ec_establish"
        /\ AwaitsOperationLock(u)

(* ------------------------------- debounce ------------------------------ *)

\* C39 as stated: a change notification is suppressed only while its attribute
\* is still pending in the queue, so that after every push notification the
\* attribute of its code is in the queue, for a later queued refresh to read.
C39_NoChangeDropped ==
    [][(Notified /\ event'.ch = "push") => QueuedBy(event'.code) \subseteq queue'
      ]_vars

\* C39, amended: a push notification is suppressed exactly when one of the same
\* code was processed fewer than 5 time units earlier, whether or not its
\* attribute is still pending, and then leaves the queue as it is; any other
\* puts the attribute of its code into the queue, also after that attribute was
\* drained and read.  A queued attribute leaves the queue only when a queued
\* refresh takes it, and a queued refresh that returns has read every attribute
\* it took.
C39_DebounceByTime ==
    [][/\ (Notified /\ event'.ch = "push") =>
              IF InWindow(event'.code)
              THEN queue' = queue
              ELSE queue' = queue \cup QueuedBy(event'.code)
       /\ \A a \in queue \ queue' :
              \E t \in Tasks : StartsQueued(t) /\ a \in taken'[t]
       /\ \A t \in Tasks :
              (Draining(t) /\ StepOf(t) /\ ~Starts(t)
                   /\ pc'[t] = "done" /\ outcome'[t] = "ok") =>
                  /\ pc[t] = "rd_io"
                  /\ AttrsRead(vals[t]) \cup {Head(todo[t])} = taken[t]
      ]_vars

\* The target temperature was queued, drained and read, and a notification of
\* the same code, 5 or more time units after the first, has queued it again.
C39_Witness ==
    \E t \in Tasks :
        /\ op[t].k = "queued" /\ pc[t] = "done" /\ outcome[t] = "ok"
        /\ taken[t] = {"target_temp"} /\ late[t] = {}
        /\ queue = {"target_temp"}
        /\ events = 2 /\ event = [ch |-> "push", code |-> 4]
        /\ latest[4] >= 1 + DebounceWindow

(* ------------------------------- dispatch ------------------------------ *)

\* C40: _fire_callbacks invokes the callbacks registered when it starts, each
\* once and in registration order, and returns without an error, whatever the
\* callbacks register or unregister while it runs.
C40_DispatchSurvivesMutation ==
    (call.f = "_fire_callbacks" /\ call.done) =>
        /\ call.out.called = call.arg.callbacks
        /\ ~call.out.raised

====
